---------------------------- MODULE Spec2Model ----------------------------
(***************************************************************************)
(* Model of the image-to-text engine of ls3 (src/ascii_art.go, the second  *)
(* revision of the file: lines 188-517), of the bucket region cache and    *)
(* its mutex (src/s3_client.go), and of the start of the program and the   *)
(* object list view (src/main.go).                                         *)
(*                                                                         *)
(* Numbers.  The Go code computes in float64.  The model computes the same *)
(* expressions over exact rationals <<n, d>> (d > 0, lowest terms); int()  *)
(* and uint32() are truncation toward zero.  The one float literal that is *)
(* not a short decimal, 2.718281828459045, is represented by the rational  *)
(* 2721/1001 (see E).  Pixel channels are the 16-bit values that           *)
(* color.Color.RGBA() returns (alpha-premultiplied, 0..65535).             *)
(*                                                                         *)
(* Text.  A returned string is the record [head, body]: head is the        *)
(* sequence of header (or error) lines as strings, with the box-drawing    *)
(* runes of the header written as the ASCII characters + - |, and body is  *)
(* the sequence of code points written after the header by WriteRune and   *)
(* WriteByte.  The empty string is [head |-> <<>>, body |-> <<>>].         *)
(***************************************************************************)
EXTENDS Integers, Sequences, FiniteSets, TLC

VARIABLES
    pc,              \* "call": arguments chosen, function not yet run; "done": returned
    fn,              \* the function invoked: "convertToASCIIArt" or "convertImageToASCII"
    data,            \* argument: the byte buffer (and what image.Decode makes of it)
    filename,        \* argument: sequence of one-character strings
    terminalWidth,   \* argument
    terminalHeight,  \* argument
    maxWidth,        \* argument of convertImageToASCII / local of convertToASCIIArt
    maxHeight,       \* argument of convertImageToASCII / local of convertToASCIIArt
    text,            \* returned string
    wasImage,        \* returned bool (err == nil for convertImageToASCII)
    decodeCalls,     \* number of image.Decode invocations made by the call
    width,           \* local: bounds.Dx()
    height,          \* local: bounds.Dy()
    newWidth,        \* local: planned grid width
    newHeight,       \* local: planned grid height
    cells,           \* cells[y+1][x+1]: the per-cell locals of the render loop
    history,         \* history[args]: what each call of convertToASCIIArt with args returned
    bucketRegionCache, \* package variable of s3_client.go: bucket name -> region
    regionCalls,     \* regionCalls[p]: the call of getBucketRegion goroutine p is in
    getBucketLocationCalls, \* per bucket, the GetBucketLocation requests made so far
    clearCacheCalled, \* whether clearCache was called so far
    regionLog,       \* the calls one goroutine made one after the other, with their results
    regionClientCache, \* package variable of s3_client.go: region -> client
    cacheMutex,      \* package variable of s3_client.go: who holds the sync.RWMutex
    mutexCalls,      \* mutexCalls[p]: the function goroutine p runs and the line it is at
    mainPc,          \* position of main and of its navigation goroutine
    s3URL,           \* main: the first command-line argument, "" without one
    stateFile,       \* the state file ~/.ls3_state.json
    stateFileAtStart, \* the state file as it was when the program started
    bucketListing,   \* what ListBuckets answers
    savedState,      \* main: savedState
    currentState,    \* main: currentState
    targetBucket,    \* main: targetBucket
    targetPrefix,    \* main: targetPrefix
    shouldNavigate,  \* main: shouldNavigate
    navigated,       \* the calls listObjects(bucket, prefix) made so far
    rootView,        \* what app.SetRoot shows: "buckets", "objects" or "file"
    listPrefix,      \* listObjects: prefix of the call whose view is shown
    objectTable,     \* listObjects: objectTable, its header and the names of its data rows
    objectEntries,   \* listObjects: objectEntries
    listFetching,    \* populateObjectTable goroutines waiting for listS3Objects
    listUpdates,     \* the listings queued with app.QueueUpdateDraw, oldest first
    opened,          \* the key just handled, if Enter: the name the row showed, the key opened
    leftTrail        \* the Left presses made in a row: prefix before, prefix and view after

imageVars == <<pc, fn, data, filename, terminalWidth, terminalHeight, maxWidth,
               maxHeight, text, wasImage, decodeCalls, width, height, newWidth,
               newHeight, cells, history>>
regionCounters == <<getBucketLocationCalls, clearCacheCalled>>
lockVars == <<regionClientCache, cacheMutex, mutexCalls>>
regionVars == <<bucketRegionCache, regionCalls, regionCounters, regionLog, lockVars>>
listVars == <<rootView, listPrefix, objectTable, objectEntries, listFetching, listUpdates,
              opened, leftTrail>>
\* the variables of main that the object list does not touch
mainLocals == <<mainPc, s3URL, stateFileAtStart, bucketListing, savedState, targetBucket,
                targetPrefix, shouldNavigate>>
startupVars == <<mainPc, s3URL, stateFile, stateFileAtStart, bucketListing, savedState,
                 currentState, targetBucket, targetPrefix, shouldNavigate, navigated,
                 listVars>>
vars == <<imageVars, regionVars, startupVars>>

(***************************************************************************)
(* Bounds of the model.                                                    *)
(***************************************************************************)
MaxImgDim == 3          \* solid images range over 1..MaxImgDim in both dimensions
MaxGradientWidth == 6   \* gradient images are 2..MaxGradientWidth pixels wide
MaxRepeat == 2          \* a sequence of calls repeats the same arguments at most MaxRepeat times
MaxCallers == 2         \* goroutines calling getBucketRegion concurrently
MaxCounted == 2         \* GetBucketLocation requests per bucket are counted up to MaxCounted
MaxRegionLog == 3       \* calls a goroutine makes one after the other
MaxDepth == 2           \* directories are nested at most MaxDepth deep
MaxPending == 2         \* listings requested and not yet applied to the table

(***************************************************************************)
(* Arithmetic helpers.                                                     *)
(***************************************************************************)
\* Go evaluates an expression once and names its value (x := e; ... x ... x ...):
\* Bind(e, F) is F applied to the value of e.
Bind(v, F(_)) == CHOOSE r \in {F(x) : x \in {v}} : TRUE

Min(a, b) == Bind(<<a, b>>, LAMBDA v : IF v[1] < v[2] THEN v[1] ELSE v[2])
Max(a, b) == Bind(<<a, b>>, LAMBDA v : IF v[1] > v[2] THEN v[1] ELSE v[2])
Abs(a) == Bind(a, LAMBDA v : IF v < 0 THEN -v ELSE v)

RECURSIVE GCD(_, _)
GCD(a, b) == IF b = 0 THEN a ELSE GCD(b, a % b)

\* Go's integer division and float-to-int conversion truncate toward zero.
TruncDiv(n, d) ==
    Bind(<<n, d>>, LAMBDA v : IF v[1] >= 0 THEN v[1] \div v[2] ELSE -((-v[1]) \div v[2]))

\* Rationals <<n, d>>, d > 0, in lowest terms.
Rat(n, d) ==
    Bind(<<n, d>>, LAMBDA v :
        Bind(GCD(Abs(v[1]), Abs(v[2])), LAMBDA g :
            IF v[2] < 0 THEN <<(-v[1]) \div g, (-v[2]) \div g>>
            ELSE <<v[1] \div g, v[2] \div g>>))
RInt(n) == <<n, 1>>
RAdd(p, q) ==
    Bind(<<p, q>>, LAMBDA v :
        Bind((v[1][2] \div GCD(v[1][2], v[2][2])) * v[2][2], LAMBDA l :
            Rat(v[1][1] * (l \div v[1][2]) + v[2][1] * (l \div v[2][2]), l)))
RNeg(p) == Bind(p, LAMBDA v : <<-v[1], v[2]>>)
RSub(p, q) == RAdd(p, RNeg(q))
RMul(p, q) ==
    Bind(<<p, q>>, LAMBDA v :
        Bind(<<Rat(v[1][1], v[2][2]), Rat(v[2][1], v[1][2])>>, LAMBDA c :
            <<c[1][1] * c[2][1], c[1][2] * c[2][2]>>))
RLess(p, q) == RSub(p, q)[1] < 0
RDiv(p, q) == RMul(p, Bind(q, LAMBDA v : Rat(v[2], v[1])))
RTrunc(p) == Bind(p, LAMBDA v : TruncDiv(v[1], v[2]))
RMin(p, q) == Bind(<<p, q>>, LAMBDA v : IF RLess(v[2], v[1]) THEN v[2] ELSE v[1])
\* variant: only the lower bound is enforced
ClampAtZero(p) == Bind(p, LAMBDA v : IF RLess(v, RInt(0)) THEN RInt(0) ELSE v)

\* if x > 1.0 { x = 1.0 }; if x < 0.0 { x = 0.0 }
Clamp01(p) ==
    Bind(p, LAMBDA v : IF RLess(RInt(1), v) THEN RInt(1)
                       ELSE IF RLess(v, RInt(0)) THEN RInt(0) ELSE v)

(***************************************************************************)
(* Strings.  A filename is a sequence of one-character strings.            *)
(***************************************************************************)
UpperCase == <<"A","B","C","D","E","F","G","H","I","J","K","L","M",
               "N","O","P","Q","R","S","T","U","V","W","X","Y","Z">>
LowerCase == <<"a","b","c","d","e","f","g","h","i","j","k","l","m",
               "n","o","p","q","r","s","t","u","v","w","x","y","z">>

\* strings.ToLower on one character
ToLowerChar(c) ==
    IF \E i \in 1..26 : UpperCase[i] = c
    THEN LowerCase[CHOOSE i \in 1..26 : UpperCase[i] = c]
    ELSE c
\* strings.ToLower
ToLower(s) == [i \in 1..Len(s) |-> ToLowerChar(s[i])]
\* strings.HasSuffix
HasSuffix(s, suffix) ==
    /\ Len(s) >= Len(suffix)
    /\ SubSeq(s, Len(s) - Len(suffix) + 1, Len(s)) = suffix
\* bytes.HasPrefix, used for data[0:n] == "..." comparisons guarded by len(data) >= n
HasPrefix(s, prefix) ==
    /\ Len(s) >= Len(prefix)
    /\ SubSeq(s, 1, Len(prefix)) = prefix

(***************************************************************************)
(* Format Sniffer: isImageFile, isImageData.                               *)
(***************************************************************************)
\* variant: the suffixes without their dot
isImageFileBySubstring(name) ==
    LET f == ToLower(name)
    IN  \/ HasSuffix(f, <<"j","p","g">>)
        \/ HasSuffix(f, <<"j","p","e","g">>)
        \/ HasSuffix(f, <<"p","n","g">>)
        \/ HasSuffix(f, <<"g","i","f">>)
        \/ HasSuffix(f, <<"b","m","p">>)
        \/ HasSuffix(f, <<"w","e","b","p">>)

\* variant: no strings.ToLower
isImageFileCaseSensitive(name) ==
    \/ HasSuffix(name, <<".","j","p","g">>)
    \/ HasSuffix(name, <<".","j","p","e","g">>)
    \/ HasSuffix(name, <<".","p","n","g">>)
    \/ HasSuffix(name, <<".","g","i","f">>)
    \/ HasSuffix(name, <<".","b","m","p">>)
    \/ HasSuffix(name, <<".","w","e","b","p">>)

isImageFile(name) ==
    LET f == ToLower(name)
    IN  \/ HasSuffix(f, <<".","j","p","g">>)
        \/ HasSuffix(f, <<".","j","p","e","g">>)
        \/ HasSuffix(f, <<".","p","n","g">>)
        \/ HasSuffix(f, <<".","g","i","f">>)
        \/ HasSuffix(f, <<".","b","m","p">>)
        \/ HasSuffix(f, <<".","w","e","b","p">>)

\* The byte signatures of the code, as byte sequences.
SigJPEG == <<255, 216>>
SigPNG == <<137, 80, 78, 71, 13, 10, 26, 10>>
SigGIF87a == <<71, 73, 70, 56, 55, 97>>
SigGIF89a == <<71, 73, 70, 56, 57, 97>>
SigBMP == <<66, 77>>
SigRIFF == <<82, 73, 70, 70>>
SigWEBP == <<87, 69, 66, 80>>

\* variant: the first byte alone decides JPEG and BMP, no length guard
isImageDataNoLengthGuard(d) ==
    \/ HasPrefix(d, <<255>>)
    \/ HasPrefix(d, SigPNG)
    \/ HasPrefix(d, SigGIF87a) \/ HasPrefix(d, SigGIF89a)
    \/ HasPrefix(d, <<66>>)
    \/ (Len(d) >= 12 /\ SubSeq(d, 1, 4) = SigRIFF /\ SubSeq(d, 9, 12) = SigWEBP)

\* variant: a RIFF container is accepted without looking at bytes 8-11
isImageDataAnyRIFF(d) ==
    \/ HasPrefix(d, SigJPEG)
    \/ HasPrefix(d, SigPNG)
    \/ HasPrefix(d, SigGIF87a) \/ HasPrefix(d, SigGIF89a)
    \/ HasPrefix(d, SigBMP)
    \/ (Len(d) >= 12 /\ SubSeq(d, 1, 4) = SigRIFF)

isImageData(d) ==
    IF Len(d) < 2 THEN FALSE
    ELSE IF Len(d) >= 2 /\ d[1] = 255 /\ d[2] = 216 THEN TRUE
    ELSE IF Len(d) >= 8 /\ d[1] = 137 /\ d[2] = 80 /\ d[3] = 78 /\ d[4] = 71
                        /\ d[5] = 13 /\ d[6] = 10 /\ d[7] = 26 /\ d[8] = 10 THEN TRUE
    ELSE IF Len(d) >= 6 /\ (SubSeq(d, 1, 6) = SigGIF87a \/ SubSeq(d, 1, 6) = SigGIF89a) THEN TRUE
    ELSE IF Len(d) >= 2 /\ d[1] = 66 /\ d[2] = 77 THEN TRUE
    ELSE IF Len(d) >= 12 /\ SubSeq(d, 1, 4) = SigRIFF /\ SubSeq(d, 9, 12) = SigWEBP THEN TRUE
    ELSE FALSE


(***************************************************************************)
(* Pixel Source.  A decoded image is [w, h, pix, zero], pix[<<x, y>>] being *)
(* the value of img.At(x, y).RGBA() as the record [r, g, b, a] for a point  *)
(* of the image, and zero the colour At returns for any other point.        *)
(***************************************************************************)
At(img, x, y) == IF <<x, y>> \in DOMAIN img.pix THEN img.pix[<<x, y>>] ELSE img.zero

\* uint32(float64(c)*alpha + 65535.0*(1.0-alpha)) with alpha = float64(a)/65535.0
Composite(c, a) ==
    Bind(Rat(a, 65535), LAMBDA alpha :
        TruncDiv(c * alpha[1] + 65535 * (alpha[2] - alpha[1]), alpha[2]))

\* 1000 * (0.299*r + 0.587*g + 0.114*b) after compositing the pixel onto white
Gray1000(px) ==
    299 * Composite(px.r, px.a) + 587 * Composite(px.g, px.a) + 114 * Composite(px.b, px.a)

\* 1000 * 65535: the denominator of gray/65535.0 when gray is held as Gray1000
Gray1000Max == 1000 * 65535

\* Gray1000 of the pixel at (x, y); img.gray tabulates Gray1000(At(img, x, y)),
\* which the code recomputes at every read of the pixel
GrayAt(img, x, y) == IF <<x, y>> \in DOMAIN img.gray THEN img.gray[<<x, y>>] ELSE img.grayZero
WithGray(img) == [w |-> img.w, h |-> img.h, pix |-> img.pix, zero |-> img.zero,
                  gray |-> [p \in DOMAIN img.pix |-> Gray1000(At(img, p[1], p[2]))],
                  grayZero |-> Gray1000(img.zero)]

\* the sum of F(dx, dy) over the window dx, dy in -half..half, row by row
RECURSIVE SumWindow(_, _, _, _)
SumWindow(F(_, _), half, dx, dy) ==
    IF dy > half THEN 0
    ELSE IF dx > half THEN SumWindow(F, half, -half, dy + 1)
    ELSE F(dx, dy) + SumWindow(F, half, dx + 1, dy)

(***************************************************************************)
(* Geometry Planner: lines 216-241 of convertImageToASCII.                 *)
(***************************************************************************)
charAspectRatio == <<1, 2>>

\* int(NaN): the conversion of a float64 that is not a number is
\* implementation-specific in Go (the minimum integer on amd64, 0 on arm64)
IntOfNaN == {-2147483647, 0}

\* the plan before the clamp to 1 (lines 220-233), v being the value of int(NaN).
\* A height of 0 makes imageAspectRatio +Inf (the test is true, maxWidth / +Inf is 0),
\* or NaN when the width is 0 as well (the test is false, maxHeight * NaN is NaN).
Planned(w, h, mw, mh, v) ==
    IF h = 0 /\ w = 0 THEN <<v, mh>>
    ELSE IF h = 0 THEN <<mw, 0>>
    ELSE Bind(RDiv(Rat(w, h), charAspectRatio), LAMBDA adjustedAspectRatio :
            IF RLess(Rat(mw, mh), adjustedAspectRatio)
            THEN <<mw, RTrunc(RDiv(RInt(mw), adjustedAspectRatio))>>
            ELSE <<RTrunc(RMul(RInt(mh), adjustedAspectRatio)), mh>>)

\* variant: the width/height test compares the unadjusted image ratio
PlanGeometryUnadjustedTest(w, h, mw, mh) ==
    IF h = 0 THEN <<Max(mw, 1), 1>>
    ELSE Bind(RDiv(Rat(w, h), charAspectRatio), LAMBDA adjustedAspectRatio :
            Bind(IF RLess(Rat(mw, mh), Rat(w, h))
                 THEN <<mw, RTrunc(RDiv(RInt(mw), adjustedAspectRatio))>>
                 ELSE <<RTrunc(RMul(RInt(mh), adjustedAspectRatio)), mh>>,
                 LAMBDA planned : <<Max(planned[1], 1), Max(planned[2], 1)>>))

\* variant: the planned dimension is rounded to the nearest integer
PlanGeometryRoundToNearest(w, h, mw, mh) ==
    IF h = 0 THEN <<Max(mw, 1), 1>>
    ELSE Bind(RDiv(Rat(w, h), charAspectRatio), LAMBDA adjustedAspectRatio :
            Bind(IF RLess(Rat(mw, mh), adjustedAspectRatio)
                 THEN <<mw, RTrunc(RAdd(RDiv(RInt(mw), adjustedAspectRatio), <<1, 2>>))>>
                 ELSE <<RTrunc(RAdd(RMul(RInt(mh), adjustedAspectRatio), <<1, 2>>)), mh>>,
                 LAMBDA planned : <<Max(planned[1], 1), Max(planned[2], 1)>>))

\* <<newWidth, newHeight>>: the plan clamped to the minimum of 1 (lines 235-241),
\* which is the same for every value int(NaN) can take
PlanGeometry(w, h, mw, mh) ==
    Bind({ Bind(Planned(w, h, mw, mh, v), LAMBDA planned :
               <<Max(planned[1], 1), Max(planned[2], 1)>>) : v \in IntOfNaN },
         LAMBDA plans : CHOOSE p \in plans : \A q \in plans : q = p)

(***************************************************************************)
(* Sampler and feature extractor.                                          *)
(***************************************************************************)
\* sampleSize of samplePixelArea (lines 296-306)
SampleSize(nw, imgWidth) ==
    Bind(Rat(imgWidth, nw), LAMBDA xScale :
        Min(IF RLess(RInt(2), xScale) THEN RTrunc(xScale) ELSE 2, 4))

\* centerX / centerY: int(float64(x) * (float64(imgWidth) / float64(newWidth)))
Center(x, nw, imgWidth) == RTrunc(RMul(RInt(x), Rat(imgWidth, nw)))

\* <<sampleSize / 2, centerX, centerY>>
Window(x, y, nw, nh, imgWidth, imgHeight) ==
    <<TruncDiv(SampleSize(nw, imgWidth), 2), Center(x, nw, imgWidth), Center(y, nh, imgHeight)>>

\* variant: the first column and the first row are taken to be out of range
InRangeAboveZero(ix, iy, imgWidth, imgHeight) ==
    ix > 0 /\ ix < imgWidth /\ iy > 0 /\ iy < imgHeight

InRange(ix, iy, imgWidth, imgHeight) == ix >= 0 /\ ix < imgWidth /\ iy >= 0 /\ iy < imgHeight

\* sampleCount of samplePixelArea: the number of pixels read, those of the window
\* that lie in the image
sampleCount(x, y, nw, nh, imgWidth, imgHeight) ==
    Bind(Window(x, y, nw, nh, imgWidth, imgHeight), LAMBDA c :
        SumWindow(LAMBDA dx, dy :
                    IF InRange(c[2] + dx, c[3] + dy, imgWidth, imgHeight) THEN 1 ELSE 0,
                  c[1], -c[1], -c[1]))

\* the points at which samplePixelArea calls img.At (line 322): those of the
\* window that pass the bounds check of line 320
sampleReads(x, y, nw, nh, imgWidth, imgHeight) ==
    Bind(Window(x, y, nw, nh, imgWidth, imgHeight), LAMBDA c :
        {p \in {<<c[2] + dx, c[3] + dy>> : dx \in -c[1]..c[1], dy \in -c[1]..c[1]} :
            InRange(p[1], p[2], imgWidth, imgHeight)})

\* variant: no bounds check, an out-of-range neighbour counts as a black sample
samplePixelAreaUnchecked(img, x, y, nw, nh, imgWidth, imgHeight) ==
    Bind(Window(x, y, nw, nh, imgWidth, imgHeight), LAMBDA c :
        Rat(SumWindow(LAMBDA dx, dy :
                        IF InRange(c[2] + dx, c[3] + dy, imgWidth, imgHeight)
                        THEN Gray1000Max - GrayAt(img, c[2] + dx, c[3] + dy)
                        ELSE Gray1000Max,
                      c[1], -c[1], -c[1]),
            Gray1000Max * (2 * c[1] + 1) * (2 * c[1] + 1)))

samplePixelArea(img, x, y, nw, nh, imgWidth, imgHeight) ==
    Bind(Window(x, y, nw, nh, imgWidth, imgHeight), LAMBDA c :
        Bind(<< \* totalIntensity, in units of 1/Gray1000Max: the sum of 1.0 - gray/65535.0
                SumWindow(LAMBDA dx, dy :
                            IF InRange(c[2] + dx, c[3] + dy, imgWidth, imgHeight)
                            THEN Gray1000Max - GrayAt(img, c[2] + dx, c[3] + dy)
                            ELSE 0,
                          c[1], -c[1], -c[1]),
                sampleCount(x, y, nw, nh, imgWidth, imgHeight) >>,
             LAMBDA t : IF t[2] = 0 THEN <<1, 2>> ELSE Rat(t[1], Gray1000Max * t[2])))

\* Sobel kernels, indexed [dy][dx] with dy, dx in -1..1
sobelX == [dy \in -1..1 |-> [dx \in -1..1 |-> IF dy = 0 THEN 2 * dx ELSE dx]]
sobelY == [dy \in -1..1 |-> [dx \in -1..1 |-> IF dx = 0 THEN 2 * dy ELSE dy]]

\* variant: only the lower bound is clamped
ClampCoordLowOnly(i, size) == IF i < 0 THEN 0 ELSE i

\* bounds checking with clamping (lines 365-376)
ClampCoord(i, size) == IF i < 0 THEN 0 ELSE IF i >= size THEN size - 1 ELSE i

\* the points at which calculateEdgeEnhancement calls img.At (line 378)
edgeReads(x, y, nw, nh, imgWidth, imgHeight) ==
    Bind(<<Center(x, nw, imgWidth), Center(y, nh, imgHeight)>>, LAMBDA c :
        {<<ClampCoord(c[1] + dx, imgWidth), ClampCoord(c[2] + dy, imgHeight)>> :
            dx \in -1..1, dy \in -1..1})

calculateEdgeEnhancement(img, x, y, nw, nh, imgWidth, imgHeight) ==
    Bind(<<Center(x, nw, imgWidth), Center(y, nh, imgHeight)>>, LAMBDA c :
        Bind(<< \* gx and gy, in units of 1/Gray1000Max: the sums of intensity * kernel
                Rat(SumWindow(LAMBDA dx, dy :
                                GrayAt(img, ClampCoord(c[1] + dx, imgWidth),
                                            ClampCoord(c[2] + dy, imgHeight))
                                    * sobelX[dy][dx],
                              1, -1, -1), Gray1000Max),
                Rat(SumWindow(LAMBDA dx, dy :
                                GrayAt(img, ClampCoord(c[1] + dx, imgWidth),
                                            ClampCoord(c[2] + dy, imgHeight))
                                    * sobelY[dy][dx],
                              1, -1, -1), Gray1000Max) >>,
             LAMBDA g : [gx |-> g[1], gy |-> g[2],
                         \* the value returned (lines 406-412)
                         edgeMagnitude |->
                             RMin(RAdd(RMul(g[1], g[1]), RMul(g[2], g[2])), RInt(1))]))

(***************************************************************************)
(* Tone Mapper.                                                            *)
(***************************************************************************)
\* the literal 2.718281828459045 of enhanceContrast, as the rational 2721/1001
E == <<2721, 1001>>

\* the value 1/0 = +Inf of float64 division
PosInf == <<1, 0>>

enhanceContrast(intensity) ==
    Bind( \* 1.0 + (2.718281828459045 * (-steepness * (intensity - midpoint)))
         RAdd(RInt(1), RMul(E, RMul(RNeg(RInt(6)), RSub(intensity, <<1, 2>>)))),
         LAMBDA denominator :
            IF denominator[1] = 0 THEN PosInf ELSE Rat(denominator[2], denominator[1]))

\* the bytes of the Go string constant asciiChars (UTF-8: the first glyph, U+2588,
\* is the three bytes E2 96 88); asciiChars[i] of the code is AsciiCharsBytes[i+1]
AsciiCharsBytes == <<226, 150, 136, 64, 35, 37, 42, 43, 61, 126, 45, 58, 59, 44, 46, 32>>

\* len(asciiChars): the length of the string in bytes
LenAsciiChars == Len(AsciiCharsBytes)

\* the glyphs of the ramp as code points, darkest first
RampGlyphs == <<9608, 64, 35, 37, 42, 43, 61, 126, 45, 58, 59, 44, 46, 32>>

\* charIndex := int(finalIntensity * float64(len(asciiChars)-1)), clamped.
\* int(+Inf) is implementation-specific in Go; on amd64 it is the minimum int64,
\* which the clamp turns into 0.
CharIndex(contrasted) ==
    Bind(contrasted, LAMBDA v :
        IF v = PosInf THEN 0
        ELSE Bind(RTrunc(RMul(v, RInt(LenAsciiChars - 1))), LAMBDA i :
                IF i < 0 THEN 0 ELSE IF i >= LenAsciiChars THEN LenAsciiChars - 1 ELSE i))

\* one iteration of the inner render loop (lines 258-285)
Cell(img, x, y, nw, nh, imgWidth, imgHeight) ==
    Bind(<<samplePixelArea(img, x, y, nw, nh, imgWidth, imgHeight),
           calculateEdgeEnhancement(img, x, y, nw, nh, imgWidth, imgHeight)>>, LAMBDA s :
        Bind(Clamp01(RAdd(s[1], RMul(s[2].edgeMagnitude, <<3, 10>>))), LAMBDA finalIntensity :
            Bind(CharIndex(enhanceContrast(finalIntensity)), LAMBDA charIndex :
                [intensity |-> s[1], edge |-> s[2].edgeMagnitude,
                 gx |-> s[2].gx, gy |-> s[2].gy,
                 finalIntensity |-> finalIntensity, charIndex |-> charIndex,
                 samples |-> sampleCount(x, y, nw, nh, imgWidth, imgHeight),
                 center |-> <<Center(x, nw, imgWidth), Center(y, nh, imgHeight)>>,
                 rune |-> AsciiCharsBytes[charIndex + 1]])))

(***************************************************************************)
(* Renderer and the two functions.                                         *)
(***************************************************************************)
RECURSIVE Repeat(_, _)
\* strings.Repeat
Repeat(str, n) == IF n <= 0 THEN "" ELSE str \o Repeat(str, n - 1)

\* the concatenation of rows[y], ..., rows[nh]
RECURSIVE FlattenFrom(_, _, _)
FlattenFrom(rows, y, nh) == IF y > nh THEN <<>> ELSE rows[y] \o FlattenFrom(rows, y + 1, nh)

EmptyText == [head |-> <<>>, body |-> <<>>]

\* the number of characters of a returned string
RECURSIVE HeadLen(_, _)
HeadLen(lines, k) == IF k > Len(lines) THEN 0 ELSE Len(lines[k]) + HeadLen(lines, k + 1)
TextLen(t) == HeadLen(t.head, 1) + Len(t.body)

\* image.Decode(bytes.NewReader(imageData)): the decoder library's verdict on the
\* buffer is part of the input
Decode(d) == d.dec

NoImg == [w |-> 0, h |-> 0, pix |-> <<>>, zero |-> [r |-> 0, g |-> 0, b |-> 0, a |-> 0]]
NoLocals == [width |-> 0, height |-> 0, newWidth |-> 0, newHeight |-> 0, cells |-> <<>>]

\* the four header lines (lines 244-253)
Header(w, h, format, nw, nh, tw, th, mw, mh) ==
    LET maxImgX == TruncDiv((nw - 1) * w, nw)
        maxImgY == TruncDiv((nh - 1) * h, nh)
        midImgX == TruncDiv(TruncDiv(nw, 2) * w, nw)
        midImgY == TruncDiv(TruncDiv(nh, 2) * h, nh)
    IN  << "+- Image: " \o ToString(w) \o "x" \o ToString(h) \o " (" \o format \o ") -+\n",
           "+- ASCII: " \o ToString(nw) \o "x" \o ToString(nh) \o " (term: " \o ToString(tw)
              \o "x" \o ToString(th) \o ", max: " \o ToString(mw) \o "x" \o ToString(mh)
              \o ") -+\n",
           "+- Sampling: X[0," \o ToString(midImgX) \o "," \o ToString(maxImgX) \o "] Y[0,"
              \o ToString(midImgY) \o "," \o ToString(maxImgY) \o "] of " \o ToString(w)
              \o "x" \o ToString(h) \o " -+\n",
           "+" \o Repeat("-", nw + 2) \o "+\n" >>

\* variant: no line break after the last row
RenderBodyNoFinalBreak(grid, nw, nh) ==
    FlattenFrom([y \in 1..nh |-> [x \in 1..nw |-> grid[y][x].rune]
                                  \o (IF y < nh THEN <<10>> ELSE <<>>)], 1, nh)

\* the runes and line breaks written by the render loop (lines 256-288)
RenderBody(grid, nw, nh) ==
    FlattenFrom([y \in 1..nh |-> [x \in 1..nw |-> grid[y][x].rune] \o <<10>>], 1, nh)

\* convertImageToASCII once the image is decoded (lines 211-290)
RenderImage(decoded, format, mw, mh, tw, th) ==
    Bind(WithGray(decoded), LAMBDA img :
        Bind(PlanGeometry(img.w, img.h, mw, mh), LAMBDA plan :
            Bind([y \in 1..plan[2] |-> [x \in 1..plan[1] |->
                     Cell(img, x - 1, y - 1, plan[1], plan[2], img.w, img.h)]], LAMBDA grid :
                [ok |-> TRUE,
                 text |-> [head |-> Header(img.w, img.h, format, plan[1], plan[2],
                                           tw, th, mw, mh),
                           body |-> RenderBody(grid, plan[1], plan[2])],
                 locals |-> [width |-> img.w, height |-> img.h,
                             newWidth |-> plan[1], newHeight |-> plan[2],
                             cells |-> grid]])))

\* variant: an image without pixels is an error
convertImageToASCIIRejectingEmpty(imageData, mw, mh, tw, th) ==
    Bind(Decode(imageData), LAMBDA dec :
        IF ~dec.ok \/ dec.img.w = 0 \/ dec.img.h = 0
        THEN [ok |-> FALSE,
              text |-> [head |-> <<"failed to decode image: " \o dec.err>>, body |-> <<>>],
              locals |-> NoLocals]
        ELSE RenderImage(dec.img, dec.format, mw, mh, tw, th))

\* convertImageToASCII: the returned (string, error) and the locals of the call
convertImageToASCII(imageData, mw, mh, tw, th) ==
    Bind(Decode(imageData), LAMBDA dec :
        IF ~dec.ok
        THEN [ok |-> FALSE,
              text |-> [head |-> <<"failed to decode image: " \o dec.err>>, body |-> <<>>],
              locals |-> NoLocals]
        ELSE RenderImage(dec.img, dec.format, mw, mh, tw, th))

\* variant: the margin is added to the terminal size
EffectiveMaxMarginAdded(tw, th) ==
    Bind(<<Max(tw + 6, 20), Max(th + 8, 10)>>, LAMBDA m0 :
        << IF tw > 200 /\ m0[1] > 180 THEN 180 ELSE m0[1],
           IF th > 100 /\ m0[2] > 80 THEN 80 ELSE m0[2] >>)

\* variant: the ceilings apply from 200 columns and 100 rows on
EffectiveMaxCeilingAt200(tw, th) ==
    Bind(<<Max(tw - 6, 20), Max(th - 8, 10)>>, LAMBDA m0 :
        << IF tw >= 200 /\ m0[1] > 180 THEN 180 ELSE m0[1],
           IF th >= 100 /\ m0[2] > 80 THEN 80 ELSE m0[2] >>)

\* the effective maximum grid of convertToASCIIArt (lines 483-502)
EffectiveMax(tw, th) ==
    Bind(<<Max(tw - 6, 20), Max(th - 8, 10)>>, LAMBDA m0 :
        << IF tw > 200 /\ m0[1] > 180 THEN 180 ELSE m0[1],
           IF th > 100 /\ m0[2] > 80 THEN 80 ELSE m0[2] >>)

\* the result of convertToASCIIArt once the sniffer has accepted (lines 483-509)
ConvertAccepted(d, tw, th) ==
    Bind(EffectiveMax(tw, th), LAMBDA m :
        Bind(convertImageToASCII(d, m[1], m[2], tw, th), LAMBDA r :
            [ok |-> r.ok,
             text |-> IF r.ok THEN r.text
                      ELSE [head |-> <<"Error converting image to ASCII: " \o r.text.head[1]>>,
                            body |-> <<>>],
             locals |-> r.locals,
             maxWidth |-> m[1], maxHeight |-> m[2], decodeCalls |-> 1]))

\* variant: no early return, every input is handed to the decoder
convertToASCIIArtNoSniff(d, name, tw, th) == ConvertAccepted(d, tw, th)

\* variant: a decode failure returns the empty string
convertToASCIIArtSilentFailure(d, name, tw, th) ==
    IF ~isImageFile(name) /\ ~isImageData(d.bytes)
    THEN [ok |-> FALSE, text |-> EmptyText, locals |-> NoLocals,
          maxWidth |-> 0, maxHeight |-> 0, decodeCalls |-> 0]
    ELSE Bind(ConvertAccepted(d, tw, th), LAMBDA r :
            IF r.ok THEN r ELSE [r EXCEPT !.text = EmptyText])

\* variant: a call after the first returns no text
convertToASCIIArtOnce(d, name, tw, th) ==
    IF DOMAIN history = {} THEN
        IF ~isImageFile(name) /\ ~isImageData(d.bytes)
        THEN [ok |-> FALSE, text |-> EmptyText, locals |-> NoLocals,
              maxWidth |-> 0, maxHeight |-> 0, decodeCalls |-> 0]
        ELSE ConvertAccepted(d, tw, th)
    ELSE [ok |-> FALSE, text |-> EmptyText, locals |-> NoLocals,
          maxWidth |-> 0, maxHeight |-> 0, decodeCalls |-> 0]

\* convertToASCIIArt: the returned (string, bool), the locals, and the number
\* of image.Decode invocations
convertToASCIIArt(d, name, tw, th) ==
    IF ~isImageFile(name) /\ ~isImageData(d.bytes)
    THEN [ok |-> FALSE, text |-> EmptyText, locals |-> NoLocals,
          maxWidth |-> 0, maxHeight |-> 0, decodeCalls |-> 0]
    ELSE ConvertAccepted(d, tw, th)

(***************************************************************************)
(* The bucket region cache (src/s3_client.go).                             *)
(***************************************************************************)
\* variant: the location constraint is the region, the empty one included
RegionOfUnmapped(locationConstraint) == locationConstraint

\* region := string(result.LocationConstraint); if region == "" { region = "us-east-1" }
RegionOf(locationConstraint) ==
    IF locationConstraint = "" THEN "us-east-1" ELSE locationConstraint

Callers == 1..MaxCallers
BucketNames == {"b1", "b2"}
\* what GetBucketLocation answers: a location constraint, or an error
LocationConstraints == {"", "us-west-2"}
LocationErrors == {"AccessDenied"}

LocationAnswers ==
    {[ok |-> TRUE, locationConstraint |-> c, err |-> ""] : c \in LocationConstraints}
        \cup {[ok |-> FALSE, locationConstraint |-> "", err |-> e] : e \in LocationErrors}

\* cache[bucketName] = region
Stored(cache, bucketName, region) ==
    [b \in DOMAIN cache \cup {bucketName} |-> IF b = bucketName THEN region ELSE cache[b]]

\* variant: the region fetched is returned and not cached
getBucketRegionWithoutStore(cache, bucketName, answer) ==
    IF bucketName \in DOMAIN cache
    THEN [region |-> cache[bucketName], err |-> "", asked |-> FALSE, cache |-> cache]
    ELSE IF ~answer.ok
         THEN [region |-> "", err |-> answer.err, asked |-> TRUE, cache |-> cache]
         ELSE [region |-> RegionOf(answer.locationConstraint), err |-> "",
               asked |-> TRUE, cache |-> cache]

\* getBucketRegion (lines 74-103) run from call to return with no other
\* goroutine in between: the region and the error returned, whether
\* GetBucketLocation was invoked (it then gave answer), and the cache left
getBucketRegion(cache, bucketName, answer) ==
    IF bucketName \in DOMAIN cache
    THEN [region |-> cache[bucketName], err |-> "", asked |-> FALSE, cache |-> cache]
    ELSE IF ~answer.ok
         THEN [region |-> "", err |-> answer.err, asked |-> TRUE, cache |-> cache]
         ELSE [region |-> RegionOf(answer.locationConstraint), err |-> "",
               asked |-> TRUE,
               cache |-> Stored(cache, bucketName, RegionOf(answer.locationConstraint))]

\* sync.RWMutex: the goroutines holding it for reading, and the one holding it
\* for writing (0: none)
Unlocked == [readers |-> {}, writer |-> 0]

\* variant: Lock does not wait for the readers
CanLockAmongReaders(mutex) == mutex.writer = 0

\* RLock returns once no goroutine holds the mutex for writing; Lock returns
\* once no goroutine holds it at all
CanRLock(mutex) == mutex.writer = 0
CanLock(mutex) == mutex.writer = 0 /\ mutex.readers = {}

\* the location constraint of each bucket
BucketLocation == [b \in BucketNames |-> IF b = "b1" THEN "" ELSE "us-west-2"]

\* the client s3.NewFromConfig makes for a region
ClientFor(region) == <<"client", region>>

\* a goroutine outside the three functions
NoMutexCall == [fn |-> "", line |-> 0, bucketName |-> "", region |-> ""]

\* the lines at which a function reads a cache map, and those at which it
\* writes one or replaces it
ReadLines == {77, 116}
WriteLines == {99, 133, 143, 144}

\* no call in progress
NoRegionCall == [pc |-> "idle", bucketName |-> "", asked |-> FALSE, result |-> "",
                 region |-> "", err |-> ""]

(***************************************************************************)
(* Startup (src/main.go).  Strings are sequences of characters.            *)
(***************************************************************************)
\* AppState
AppState(bucket, prefix) == [CurrentBucket |-> bucket, CurrentPrefix |-> prefix]

\* the position of the first "/" in s, 0 if there is none
RECURSIVE IndexOfSlash(_, _)
IndexOfSlash(s, i) ==
    IF i > Len(s) THEN 0 ELSE IF s[i] = "/" THEN i ELSE IndexOfSlash(s, i + 1)

\* parseS3URL (lines 170-190): [ok, bucket, prefix]
parseS3URL(url) ==
    IF ~HasPrefix(url, <<"s", "3", ":", "/", "/">>)
    THEN [ok |-> FALSE, bucket |-> <<>>, prefix |-> <<>>]
    ELSE Bind(SubSeq(url, 6, Len(url)), LAMBDA path :
            Bind(IndexOfSlash(path, 1), LAMBDA k :
                \* parts := strings.SplitN(path, "/", 2)
                Bind(IF k = 0 THEN <<path>>
                     ELSE <<SubSeq(path, 1, k - 1), SubSeq(path, k + 1, Len(path))>>,
                     LAMBDA parts :
                        IF parts[1] = <<>>
                        THEN [ok |-> FALSE, bucket |-> <<>>, prefix |-> <<>>]
                        ELSE [ok |-> TRUE,
                              bucket |-> parts[1],
                              prefix |-> IF Len(parts) > 1
                                         THEN IF ~HasSuffix(parts[2], <<"/">>) /\ parts[2] # <<>>
                                              THEN parts[2] \o <<"/">>
                                              ELSE parts[2]
                                         ELSE <<>>])))

\* loadState (lines 65-83): the state read from the state file
loadState(file) ==
    IF file.kind = "saved" THEN AppState(file.bucket, file.prefix)
    ELSE IF file.kind = "corrupt" THEN AppState(file.bucket, <<>>)
    ELSE AppState(<<>>, <<>>)

\* variant: a saved location is preferred to the URL argument
NavigationTargetSavedFirst(url, current, saved) ==
    IF saved.CurrentBucket # <<>>
    THEN [bucket |-> saved.CurrentBucket, prefix |-> saved.CurrentPrefix, navigate |-> TRUE]
    ELSE IF url # <<>>
    THEN [bucket |-> current.CurrentBucket, prefix |-> current.CurrentPrefix, navigate |-> TRUE]
    ELSE [bucket |-> <<>>, prefix |-> <<>>, navigate |-> FALSE]

\* targetBucket, targetPrefix and shouldNavigate of main (lines 594-608)
NavigationTarget(url, current, saved) ==
    IF url # <<>>
    THEN [bucket |-> current.CurrentBucket, prefix |-> current.CurrentPrefix, navigate |-> TRUE]
    ELSE IF saved.CurrentBucket # <<>>
    THEN [bucket |-> saved.CurrentBucket, prefix |-> saved.CurrentPrefix, navigate |-> TRUE]
    ELSE [bucket |-> <<>>, prefix |-> <<>>, navigate |-> FALSE]

(***************************************************************************)
(* The object list view (listObjects of src/main.go).                      *)
(***************************************************************************)
\* strings.LastIndex(s, "/") + 1: the position of the last "/" in s, 0 if
\* there is none
LastIndexOfSlash(s) ==
    IF \E i \in DOMAIN s : s[i] = "/"
    THEN CHOOSE i \in DOMAIN s : s[i] = "/" /\ \A j \in DOMAIN s : j > i => s[j] # "/"
    ELSE 0

\* variant: Left lists the bucket's top level
ParentPrefixTopLevel(p) == <<>>

\* the prefix the Left key lists from a prefix that is not empty (lines 522-528)
ParentPrefix(p) ==
    Bind(SubSeq(p, 1, Len(p) - 1), LAMBDA newPrefix :
        Bind(LastIndexOfSlash(newPrefix), LAMBDA lastSlash :
            IF lastSlash # 0 THEN SubSeq(newPrefix, 1, lastSlash) ELSE <<>>))

\* strings.TrimSuffix(objectKey, filepath.Base(objectKey)) for a key that does
\* not end in "/" (line 334): the key up to its last "/"
TrimBase(objectKey) == SubSeq(objectKey, 1, LastIndexOfSlash(objectKey))

\* an ObjectEntry
ObjectEntry(key, isDirectory) == [Key |-> key, IsDirectory |-> isDirectory]

\* the entries a listing adds, directories first, the object whose key is the
\* prefix itself left out (lines 468-499)
RECURSIVE FileEntries(_, _)
FileEntries(contents, p) ==
    IF contents = <<>> THEN <<>>
    ELSE (IF Head(contents) # p THEN <<ObjectEntry(Head(contents), FALSE)>> ELSE <<>>)
             \o FileEntries(Tail(contents), p)
ListedEntries(objects, p) ==
    [i \in DOMAIN objects.CommonPrefixes |-> ObjectEntry(objects.CommonPrefixes[i], TRUE)]
        \o FileEntries(objects.Contents, p)

\* objectTable after Clear
ClearedTable == [header |-> FALSE, rows |-> <<>>]

\* the update queued by populateObjectTable (lines 459-505): the header cells
\* are set, every entry is appended to objectEntries and its name is set in
\* the rows counted from 1; cells of further rows stay as they are
Applied(table, entries, objects, p) ==
    Bind(ListedEntries(objects, p), LAMBDA new :
        [table |-> [header |-> TRUE,
                    rows |-> [r \in 1..Max(Len(table.rows), Len(new)) |->
                                 IF r <= Len(new) THEN new[r].Key ELSE table.rows[r]]],
         entries |-> entries \o new])

\* the key handled last was not Enter on a row with an entry
NotOpened == [shown |-> <<>>, key |-> <<>>, pressed |-> FALSE]

(***************************************************************************)
(* Inputs.                                                                 *)
(***************************************************************************)
Px(r, g, b, a) == [r |-> r, g |-> g, b |-> b, a |-> a]
White == Px(65535, 65535, 65535, 65535)
Black == Px(0, 0, 0, 65535)
\* opaque gray of 4-bit level j (a 4-bit sample j is the 16-bit channel j * 4369)
Gray4(j) == Px(j * 4369, j * 4369, j * 4369, 65535)
Red == Px(65535, 0, 0, 65535)
Clear == Px(0, 0, 0, 0)
Colours == {White, Black, Gray4(5), Gray4(9), Red, Clear}

Coords(w, h) == (0..(w - 1)) \X (0..(h - 1))
SolidImage(w, h, c) == [w |-> w, h |-> h, pix |-> [p \in Coords(w, h) |-> c], zero |-> Clear]
\* horizontal gradient, black at x = 0 to white at x = w-1, in 4-bit gray levels
GradientImage(w, h) ==
    [w |-> w, h |-> h, pix |-> [p \in Coords(w, h) |-> Gray4((15 * p[1]) \div (w - 1))],
     zero |-> Clear]
\* an image without pixels; At returns the zero colour of the image type at every
\* point (transparent for an RGBA image, black for a gray one)
EmptyImage(w, h, zero) == [w |-> w, h |-> h, pix |-> <<>>, zero |-> zero]

SolidImages == {SolidImage(w, h, c) : w \in 1..MaxImgDim, h \in 1..MaxImgDim, c \in Colours}
GradientImages == {GradientImage(w, h) : w \in 2..MaxGradientWidth, h \in 1..2}
Images == SolidImages \cup GradientImages
DegenerateImages == {EmptyImage(d[1], d[2], z) : d \in {<<0, 0>>, <<0, 2>>, <<2, 0>>}, z \in {Clear, Black}}

IsSolid(img) == \A p, q \in DOMAIN img.pix : img.pix[p] = img.pix[q]
IsGradient(img) == img \in GradientImages

Failed(err) == [ok |-> FALSE, err |-> err, format |-> "", img |-> NoImg]
Decoded(format, img) == [ok |-> TRUE, err |-> "", format |-> format, img |-> img]
Buffer(bytes, dec) == [bytes |-> bytes, dec |-> dec]

\* buffers the decoder rejects
TextHello == <<104, 101, 108, 108, 111>>
TextBMW == <<66, 77, 87, 32, 99, 97, 114>>
BadBuffers ==
    { Buffer(<<>>, Failed("image: unknown format")),
      Buffer(<<255>>, Failed("image: unknown format")),
      Buffer(<<66>>, Failed("image: unknown format")),
      Buffer(<<216, 255>>, Failed("image: unknown format")),
      Buffer(TextHello, Failed("image: unknown format")),
      Buffer(TextBMW, Failed("image: unknown format")),
      Buffer(SigJPEG, Failed("unexpected EOF")),
      Buffer(SigJPEG \o <<255, 224, 0, 16>>, Failed("unexpected EOF")),
      Buffer(SubSeq(SigPNG, 1, 7), Failed("image: unknown format")),
      Buffer(SigPNG, Failed("unexpected EOF")),
      Buffer(SigGIF87a, Failed("unexpected EOF")),
      Buffer(SigGIF89a \o <<1, 0>>, Failed("unexpected EOF")),
      Buffer(<<71, 73, 70, 56, 56, 97>>, Failed("gif: can't recognize format GIF88a")),
      Buffer(SigBMP, Failed("image: unknown format")),
      Buffer(SigRIFF \o <<4, 0, 0, 0>> \o SigWEBP, Failed("image: unknown format")),
      Buffer(SigRIFF \o <<4, 0, 0, 0>> \o <<87, 65, 86, 69>>, Failed("image: unknown format")),
      Buffer(SigRIFF \o <<4, 0, 0, 0>> \o SubSeq(SigWEBP, 1, 3), Failed("image: unknown format")) }

\* a plain-text buffer: every byte is printable ASCII, tab, line feed or carriage return
IsPlainText(bytes) ==
    \A i \in 1..Len(bytes) : bytes[i] \in (32..126) \cup {9, 10, 13}

\* the leading bytes of an encoded image of each format
FormatHead == [png |-> SigPNG \o <<0, 0, 0, 13>>,
               jpeg |-> SigJPEG \o <<255, 224>>,
               gif |-> SigGIF89a \o <<1, 0>>,
               bmp |-> SigBMP \o <<70, 0>>,
               webp |-> SigRIFF \o <<36, 0, 0, 0>> \o SigWEBP \o <<86, 80, 56, 76>>]
Formats == {"png", "jpeg", "gif", "bmp", "webp"}
Encoded(format, img) == Buffer(FormatHead[format], Decoded(format, img))

ImageBuffers == {Encoded("png", img) : img \in Images}
DegenerateBuffers == {Encoded("bmp", img) : img \in DegenerateImages}
FormatBuffers == {Encoded(f, SolidImage(1, 3, Gray4(5))) : f \in Formats}

Filenames == { <<>>,
               <<"n", ".", "t", "x", "t">>,
               <<"p", "n", "g">>,
               <<"a", "j", "p", "g">>,
               <<"a", ".", "p", "n", "g">>,
               <<"A", ".", "P", "N", "G">>,
               <<"a", ".", "J", "p", "g">>,
               <<"a", ".", "j", "p", "e", "g">>,
               <<"a", ".", "g", "i", "f">>,
               <<"a", ".", "b", "m", "p">>,
               <<"a", ".", "w", "e", "b", "p">>,
               <<"a", ".", "p", "n", "g", ".", "g", "z">> }

\* terminal sizes handed to convertToASCIIArt: below the floors, above them, and
\* at and beyond the thresholds of the ceilings
TerminalSizes == {<<0, 0>>, <<30, 20>>}
LargeTerminalSizes == {<<200, 100>>, <<201, 101>>}
\* a text view smaller than the floors of the effective maximum
SmallTerminalSizes == {<<12, 6>>}
\* terminal widths and heights around the floors (20, 10), the margins (6, 8) and
\* the thresholds of the ceilings (200, 100)
BoundaryWidths == {19, 20, 25, 26, 27, 186, 187, 199, 200, 201, 202, 250}
BoundaryHeights == {9, 10, 17, 18, 19, 88, 89, 99, 100, 101, 102, 150}
\* grid maxima handed to convertImageToASCII directly
GridMaxima == {<<10, 10>>, <<1, 1>>, <<3, 7>>}
\* a tall image, rendered on the large terminals
ThinImage == SolidImage(1, 16, White)
\* an image four times as wide as its grid, so that the sampler uses its largest window
TallImage == SolidImage(8, 16, Gray4(9))
TallImageMaximum == <<2, 4>>

PngName == <<"a", ".", "p", "n", "g">>

Call(f, d, name, tw, th, mw, mh) ==
    [fn |-> f, data |-> d, filename |-> name, terminalWidth |-> tw, terminalHeight |-> th,
     maxWidth |-> mw, maxHeight |-> mh]

\* the calls of the model: the sniffer over every filename and buffer, the
\* renderer over every image
Calls ==
    {Call("convertToASCIIArt", d, name, 26, 18, 0, 0) :
        d \in BadBuffers \cup FormatBuffers, name \in Filenames}
    \cup
    {Call("convertToASCIIArt", d, PngName, t[1], t[2], 0, 0) :
        d \in ImageBuffers \cup DegenerateBuffers, t \in TerminalSizes}
    \cup
    {Call("convertToASCIIArt", Encoded("png", ThinImage), PngName, t[1], t[2], 0, 0) :
        t \in LargeTerminalSizes \cup SmallTerminalSizes}
    \cup
    {Call("convertToASCIIArt", Buffer(SigPNG, Failed("unexpected EOF")), PngName, tw, th, 0, 0) :
        tw \in BoundaryWidths, th \in BoundaryHeights}
    \cup
    {Call("convertImageToASCII", d, <<>>, 80, 25, m[1], m[2]) :
        d \in ImageBuffers \cup DegenerateBuffers \cup BadBuffers, m \in GridMaxima}
    \cup
    {Call("convertImageToASCII", Encoded("png", TallImage), <<>>, 80, 25,
          TallImageMaximum[1], TallImageMaximum[2])}

\* the arguments of the calls of a sequence of calls: an image rendered at two
\* terminal sizes, a gradient, a text file, a text file named as an image
TxtName == <<"n", ".", "t", "x", "t">>
RepeatedCalls ==
    { Call("convertToASCIIArt", Encoded("png", ThinImage), PngName, 12, 6, 0, 0),
      Call("convertToASCIIArt", Encoded("png", ThinImage), PngName, 30, 20, 0, 0),
      Call("convertToASCIIArt", Encoded("png", GradientImage(2, 1)), TxtName, 12, 6, 0, 0),
      Call("convertToASCIIArt", Buffer(TextHello, Failed("image: unknown format")), TxtName, 12, 6, 0, 0),
      Call("convertToASCIIArt", Buffer(TextHello, Failed("image: unknown format")), PngName, 12, 6, 0, 0) }

\* the arguments of the call in progress
Args == [data |-> data, filename |-> filename,
         terminalWidth |-> terminalWidth, terminalHeight |-> terminalHeight]
\* the number of calls with these arguments that have returned
Returns(a) == IF a \in DOMAIN history THEN Len(history[a]) ELSE 0
\* the history after a call with arguments a returned r
Record(a, r) ==
    IF a \in DOMAIN history THEN [history EXCEPT ![a] = Append(@, r)]
    ELSE [b \in DOMAIN history \cup {a} |-> IF b = a THEN <<r>> ELSE history[b]]

\* no call of getBucketRegion was made yet
RegionIdle ==
    /\ bucketRegionCache = <<>>
    /\ regionCalls = [p \in Callers |-> NoRegionCall]
    /\ getBucketLocationCalls = [b \in BucketNames |-> 0]
    /\ clearCacheCalled = FALSE
    /\ regionLog = <<>>
    /\ regionClientCache = <<>>
    /\ cacheMutex = Unlocked
    /\ mutexCalls = [p \in Callers |-> NoMutexCall]

\* no call of the image functions is in progress
ImageIdle ==
    /\ pc = "idle"
    /\ fn = "convertToASCIIArt"
    /\ data = Buffer(<<>>, Failed(""))
    /\ filename = <<>>
    /\ terminalWidth = 0
    /\ terminalHeight = 0
    /\ maxWidth = 0
    /\ maxHeight = 0
    /\ text = EmptyText
    /\ wasImage = FALSE
    /\ decodeCalls = 0
    /\ width = 0
    /\ height = 0
    /\ newWidth = 0
    /\ newHeight = 0
    /\ cells = <<>>
    /\ history = <<>>

\* command-line arguments, state files and bucket listings of a start of the program
Scheme == <<"s", "3", ":", "/", "/">>
B1 == <<"b", "1">>
B2 == <<"b", "2">>
URLArguments ==
    { <<>>,
      Scheme \o B1,
      Scheme \o B1 \o <<"/">>,
      Scheme \o B1 \o <<"/", "p">>,
      Scheme \o B1 \o <<"/", "p", "/">>,
      Scheme \o B2 \o <<"/", "p", "/", "q">>,
      Scheme,
      Scheme \o <<"/", "p">>,
      <<"h", "t", "t", "p", ":", "/", "/">> \o B1,
      B1 }
StateFiles ==
    { [kind |-> "missing"], [kind |-> "unreadable"] }
    \cup { [kind |-> "corrupt", bucket |-> b] : b \in {<<>>, B1} }
    \cup { [kind |-> "saved", bucket |-> b, prefix |-> q] :
              b \in {<<>>, B1, B2}, q \in {<<>>, <<"p", "/">>} }
BucketListings ==
    { [ok |-> FALSE, buckets |-> {}] }
    \cup { [ok |-> TRUE, buckets |-> bs] : bs \in SUBSET {B1, B2} }

\* the number of "/" in a prefix
Depth(p) == Cardinality({i \in DOMAIN p : p[i] = "/"})

\* what ListObjectsV2 may answer for a prefix: at most one directory below it,
\* and a few objects, among them the object whose key is the prefix itself
Listings(p) ==
    [CommonPrefixes : IF Depth(p) < MaxDepth THEN {<<>>, <<p \o <<"a", "/">>>>} ELSE {<<>>},
     Contents : {<<>>, <<p \o <<"f">>>>, <<p \o <<"g">>>>}
                    \cup (IF p # <<>> THEN {<<p, p \o <<"f">>>>} ELSE {})]

\* the prefixes main may open at startup
StartPrefixes == {<<"a", "/">>, <<"a", "/", "a", "/">>, <<"/">>}

\* the bucket list is shown and no object list was opened
ListIdle ==
    /\ rootView = "buckets"
    /\ listPrefix = <<>>
    /\ objectTable = ClearedTable
    /\ objectEntries = <<>>
    /\ listFetching = 0
    /\ listUpdates = <<>>
    /\ opened = NotOpened
    /\ leftTrail = <<>>

\* main has not started
StartupIdle ==
    /\ ListIdle
    /\ mainPc = "idle"
    /\ s3URL = <<>>
    /\ stateFile = [kind |-> "missing"]
    /\ stateFileAtStart = [kind |-> "missing"]
    /\ bucketListing = [ok |-> FALSE, buckets |-> {}]
    /\ savedState = AppState(<<>>, <<>>)
    /\ currentState = AppState(<<>>, <<>>)
    /\ targetBucket = <<>>
    /\ targetPrefix = <<>>
    /\ shouldNavigate = FALSE
    /\ navigated = <<>>

(***************************************************************************)
(* The state machine: one call of one of the two functions.                *)
(***************************************************************************)
Init ==
    /\ \E c \in Calls :
          /\ fn = c.fn
          /\ data = c.data
          /\ filename = c.filename
          /\ terminalWidth = c.terminalWidth
          /\ terminalHeight = c.terminalHeight
          /\ maxWidth = c.maxWidth
          /\ maxHeight = c.maxHeight
    /\ pc = "call"
    /\ text = EmptyText
    /\ wasImage = FALSE
    /\ decodeCalls = 0
    /\ width = 0
    /\ height = 0
    /\ newWidth = 0
    /\ newHeight = 0
    /\ cells = <<>>
    /\ history = <<>>
    /\ RegionIdle
    /\ StartupIdle

ConvertToASCIIArt ==
    /\ pc = "call"
    /\ fn = "convertToASCIIArt"
    /\ \E r \in {convertToASCIIArt(data, filename, terminalWidth, terminalHeight)} :
           /\ text' = r.text
           /\ wasImage' = r.ok
           /\ decodeCalls' = r.decodeCalls
           /\ maxWidth' = r.maxWidth
           /\ maxHeight' = r.maxHeight
           /\ width' = r.locals.width
           /\ height' = r.locals.height
           /\ newWidth' = r.locals.newWidth
           /\ newHeight' = r.locals.newHeight
           /\ cells' = r.locals.cells
           /\ history' = Record(Args, [text |-> r.text, wasImage |-> r.ok])
    /\ pc' = "done"
    /\ UNCHANGED <<fn, data, filename, terminalWidth, terminalHeight>>
    /\ UNCHANGED <<regionVars, startupVars>>

ConvertImageToASCII ==
    /\ pc = "call"
    /\ fn = "convertImageToASCII"
    /\ \E r \in {convertImageToASCII(data, maxWidth, maxHeight, terminalWidth, terminalHeight)} :
           /\ text' = r.text
           /\ wasImage' = r.ok
           /\ width' = r.locals.width
           /\ height' = r.locals.height
           /\ newWidth' = r.locals.newWidth
           /\ newHeight' = r.locals.newHeight
           /\ cells' = r.locals.cells
    /\ decodeCalls' = 1
    /\ pc' = "done"
    /\ UNCHANGED <<fn, data, filename, terminalWidth, terminalHeight, maxWidth, maxHeight,
                   history>>
    /\ UNCHANGED <<regionVars, startupVars>>

Next == ConvertToASCIIArt \/ ConvertImageToASCII

Spec == Init /\ [][Next]_vars

(***************************************************************************)
(* A sequence of calls of convertToASCIIArt: after a call has returned the  *)
(* caller calls again, with the same or with other arguments.  Nothing but  *)
(* the arguments is handed to the next call: the locals of a call start     *)
(* from their zero values.                                                  *)
(***************************************************************************)
InitRepeated ==
    /\ \E c \in RepeatedCalls :
          /\ fn = c.fn
          /\ data = c.data
          /\ filename = c.filename
          /\ terminalWidth = c.terminalWidth
          /\ terminalHeight = c.terminalHeight
    /\ maxWidth = 0
    /\ maxHeight = 0
    /\ pc = "call"
    /\ text = EmptyText
    /\ wasImage = FALSE
    /\ decodeCalls = 0
    /\ width = 0
    /\ height = 0
    /\ newWidth = 0
    /\ newHeight = 0
    /\ cells = <<>>
    /\ history = <<>>
    /\ RegionIdle
    /\ StartupIdle

CallAgain ==
    /\ pc = "done"
    /\ \E c \in RepeatedCalls :
          /\ Returns([data |-> c.data, filename |-> c.filename,
                      terminalWidth |-> c.terminalWidth,
                      terminalHeight |-> c.terminalHeight]) < MaxRepeat
          /\ data' = c.data
          /\ filename' = c.filename
          /\ terminalWidth' = c.terminalWidth
          /\ terminalHeight' = c.terminalHeight
    /\ pc' = "call"
    /\ maxWidth' = 0
    /\ maxHeight' = 0
    /\ text' = EmptyText
    /\ wasImage' = FALSE
    /\ decodeCalls' = 0
    /\ width' = 0
    /\ height' = 0
    /\ newWidth' = 0
    /\ newHeight' = 0
    /\ cells' = <<>>
    /\ UNCHANGED <<fn, history>>
    /\ UNCHANGED <<regionVars, startupVars>>

NextRepeated == ConvertToASCIIArt \/ CallAgain

SpecRepeated == InitRepeated /\ [][NextRepeated]_vars

(***************************************************************************)
(* getBucketRegion called from MaxCallers goroutines.  Each section of the  *)
(* function that holds cacheMutex is one step; GetBucketLocation is called  *)
(* with the mutex released.                                                 *)
(***************************************************************************)
InitRegion == ImageIdle /\ RegionIdle /\ StartupIdle

\* a goroutine calls getBucketRegion(ctx, client, bucketName)
CallGetBucketRegion(p) ==
    /\ regionCalls[p].pc = "idle"
    /\ \E b \in BucketNames :
          regionCalls' = [regionCalls EXCEPT ![p] = [NoRegionCall EXCEPT !.pc = "lookup",
                                                                          !.bucketName = b]]
    /\ UNCHANGED <<bucketRegionCache, regionCounters, regionLog,
                   lockVars, imageVars, startupVars>>

\* lines 75-81: under the read lock, return the cached region if there is one
LookupRegion(p) ==
    /\ regionCalls[p].pc = "lookup"
    /\ regionCalls' =
          IF regionCalls[p].bucketName \in DOMAIN bucketRegionCache
          THEN [regionCalls EXCEPT ![p].pc = "done",
                                   ![p].region = bucketRegionCache[regionCalls[p].bucketName]]
          ELSE [regionCalls EXCEPT ![p].pc = "fetch"]
    /\ UNCHANGED <<bucketRegionCache, regionCounters, regionLog,
                   lockVars, imageVars, startupVars>>

\* lines 84-95: GetBucketLocation answers; an error is returned as it is
FetchRegion(p) ==
    /\ regionCalls[p].pc = "fetch"
    /\ \/ \E e \in LocationErrors :
             regionCalls' = [regionCalls EXCEPT ![p].pc = "done", ![p].asked = TRUE,
                                                ![p].err = e]
       \/ \E c \in LocationConstraints :
             regionCalls' = [regionCalls EXCEPT ![p].pc = "store", ![p].asked = TRUE,
                                                ![p].result = c,
                                                ![p].region = RegionOf(c)]
    \* the request is counted; the count stays at MaxCounted once it is reached
    /\ getBucketLocationCalls' =
          [getBucketLocationCalls EXCEPT ![regionCalls[p].bucketName] =
              Min(@ + 1, MaxCounted)]
    /\ UNCHANGED <<bucketRegionCache, clearCacheCalled, regionLog,
                   lockVars, imageVars, startupVars>>

\* lines 98-102: under the write lock, cache the region; return it
StoreRegion(p) ==
    /\ regionCalls[p].pc = "store"
    /\ bucketRegionCache' =
          Stored(bucketRegionCache, regionCalls[p].bucketName, regionCalls[p].region)
    /\ regionCalls' = [regionCalls EXCEPT ![p].pc = "done"]
    /\ UNCHANGED <<regionCounters, regionLog,
                   lockVars, imageVars, startupVars>>

\* the caller has the result; the goroutine is free for another call
ReturnRegion(p) ==
    /\ regionCalls[p].pc = "done"
    /\ regionCalls' = [regionCalls EXCEPT ![p] = NoRegionCall]
    /\ UNCHANGED <<bucketRegionCache, regionCounters, regionLog,
                   lockVars, imageVars, startupVars>>

\* clearCache (lines 140-145)
ClearCache ==
    /\ bucketRegionCache' = <<>>
    /\ clearCacheCalled' = TRUE
    /\ UNCHANGED <<regionCalls, getBucketLocationCalls, regionLog,
                   lockVars, imageVars, startupVars>>

NextRegion ==
    \/ \E p \in Callers :
          \/ CallGetBucketRegion(p)
          \/ LookupRegion(p)
          \/ FetchRegion(p)
          \/ StoreRegion(p)
          \/ ReturnRegion(p)
    \/ ClearCache

SpecRegion == InitRegion /\ [][NextRegion]_vars

(***************************************************************************)
(* One goroutine calling getBucketRegion and clearCache one after the       *)
(* other, as the tests do, and keeping what each call returned.             *)
(***************************************************************************)
InitSequential == ImageIdle /\ RegionIdle /\ StartupIdle

SequentialGetBucketRegion ==
    /\ Len(regionLog) < MaxRegionLog
    /\ \E b \in BucketNames, answer \in LocationAnswers :
          \E r \in {getBucketRegion(bucketRegionCache, b, answer)} :
              /\ bucketRegionCache' = r.cache
              /\ getBucketLocationCalls' =
                    IF r.asked
                    THEN [getBucketLocationCalls EXCEPT ![b] = Min(@ + 1, MaxCounted)]
                    ELSE getBucketLocationCalls
              /\ regionLog' = Append(regionLog,
                                     [op |-> "getBucketRegion", bucketName |-> b,
                                      answer |-> answer, region |-> r.region,
                                      err |-> r.err, asked |-> r.asked,
                                      cache |-> r.cache])
    /\ UNCHANGED <<regionCalls, clearCacheCalled, lockVars, imageVars, startupVars>>

SequentialClearCache ==
    /\ Len(regionLog) < MaxRegionLog
    /\ bucketRegionCache' = <<>>
    /\ clearCacheCalled' = TRUE
    /\ regionLog' = Append(regionLog,
                           [op |-> "clearCache", bucketName |-> "",
                            answer |-> [ok |-> FALSE, locationConstraint |-> "", err |-> ""],
                            region |-> "", err |-> "", asked |-> FALSE, cache |-> <<>>])
    /\ UNCHANGED <<regionCalls, getBucketLocationCalls, lockVars, imageVars, startupVars>>

NextSequential == SequentialGetBucketRegion \/ SequentialClearCache

SpecSequential == InitSequential /\ [][NextSequential]_vars

(***************************************************************************)
(* getBucketRegion, GetClientForBucket and clearCache statement by          *)
(* statement, run by several goroutines.  mutexCalls[p].line is the line of *)
(* s3_client.go goroutine p executes next.                                  *)
(***************************************************************************)
InitMutex == ImageIdle /\ RegionIdle /\ StartupIdle

Goto(p, line) == [mutexCalls EXCEPT ![p].line = line]

\* a goroutine calls one of the three functions; GetClientForBucket starts by
\* calling getBucketRegion (line 108)
CallCacheFunction(p) ==
    /\ mutexCalls[p].line = 0
    /\ \/ \E f \in {"getBucketRegion", "GetClientForBucket"}, b \in BucketNames :
             mutexCalls' = [mutexCalls EXCEPT ![p] =
                               [fn |-> f, line |-> 76, bucketName |-> b, region |-> ""]]
       \/ mutexCalls' = [mutexCalls EXCEPT ![p] =
                            [fn |-> "clearCache", line |-> 141, bucketName |-> "",
                             region |-> ""]]
    /\ UNCHANGED <<bucketRegionCache, regionClientCache, cacheMutex>>
    /\ UNCHANGED <<regionCalls, regionCounters, regionLog, imageVars, startupVars>>

\* cacheMutex.RLock() (lines 76, 115)
RLock(p) ==
    /\ mutexCalls[p].line \in {76, 115}
    /\ CanRLock(cacheMutex)
    /\ cacheMutex' = [cacheMutex EXCEPT !.readers = @ \cup {p}]
    /\ mutexCalls' = Goto(p, mutexCalls[p].line + 1)
    /\ UNCHANGED <<bucketRegionCache, regionClientCache>>
    /\ UNCHANGED <<regionCalls, regionCounters, regionLog, imageVars, startupVars>>

\* region, exists := bucketRegionCache[bucketName] (line 77)
ReadBucketRegionCache(p) ==
    /\ mutexCalls[p].line = 77
    /\ mutexCalls' =
          IF mutexCalls[p].bucketName \in DOMAIN bucketRegionCache
          THEN [mutexCalls EXCEPT ![p].line = 78,
                                  ![p].region = bucketRegionCache[mutexCalls[p].bucketName]]
          ELSE Goto(p, 81)
    /\ UNCHANGED <<bucketRegionCache, regionClientCache, cacheMutex>>
    /\ UNCHANGED <<regionCalls, regionCounters, regionLog, imageVars, startupVars>>

\* client, exists := regionClientCache[region] (line 116)
ReadRegionClientCache(p) ==
    /\ mutexCalls[p].line = 116
    /\ mutexCalls' = IF mutexCalls[p].region \in DOMAIN regionClientCache
                     THEN Goto(p, 117) ELSE Goto(p, 120)
    /\ UNCHANGED <<bucketRegionCache, regionClientCache, cacheMutex>>
    /\ UNCHANGED <<regionCalls, regionCounters, regionLog, imageVars, startupVars>>

\* cacheMutex.RUnlock() (lines 78, 81, 117, 120) and what follows it up to the
\* next statement that is not local: after a hit getBucketRegion returns, to
\* its caller (line 79) or into GetClientForBucket (line 115), and
\* GetClientForBucket returns (line 118)
RUnlock(p) ==
    /\ mutexCalls[p].line \in {78, 81, 117, 120}
    /\ cacheMutex' = [cacheMutex EXCEPT !.readers = @ \ {p}]
    /\ mutexCalls' =
          CASE mutexCalls[p].line = 78 ->
                  IF mutexCalls[p].fn = "GetClientForBucket" THEN Goto(p, 115)
                  ELSE [mutexCalls EXCEPT ![p] = NoMutexCall]
            [] mutexCalls[p].line = 81 -> Goto(p, 84)
            [] mutexCalls[p].line = 117 -> [mutexCalls EXCEPT ![p] = NoMutexCall]
            [] mutexCalls[p].line = 120 -> Goto(p, 123)
    /\ UNCHANGED <<bucketRegionCache, regionClientCache>>
    /\ UNCHANGED <<regionCalls, regionCounters, regionLog, imageVars, startupVars>>

\* client.GetBucketLocation (lines 84-95); on an error getBucketRegion returns
\* (line 88) and so does GetClientForBucket (line 111).  The service answers
\* with the location the bucket has.
GetBucketLocation(p) ==
    /\ mutexCalls[p].line = 84
    /\ \/ mutexCalls' = [mutexCalls EXCEPT ![p] = NoMutexCall]
       \/ mutexCalls' =
             [mutexCalls EXCEPT ![p].line = 98,
                                ![p].region = RegionOf(BucketLocation[mutexCalls[p].bucketName])]
    /\ UNCHANGED <<bucketRegionCache, regionClientCache, cacheMutex>>
    /\ UNCHANGED <<regionCalls, regionCounters, regionLog, imageVars, startupVars>>

\* cacheMutex.Lock() (lines 98, 132, 141)
Lock(p) ==
    /\ mutexCalls[p].line \in {98, 132, 141}
    /\ CanLock(cacheMutex)
    /\ cacheMutex' = [cacheMutex EXCEPT !.writer = p]
    /\ mutexCalls' = Goto(p, IF mutexCalls[p].line = 141 THEN 143
                             ELSE mutexCalls[p].line + 1)
    /\ UNCHANGED <<bucketRegionCache, regionClientCache>>
    /\ UNCHANGED <<regionCalls, regionCounters, regionLog, imageVars, startupVars>>

\* bucketRegionCache[bucketName] = region (line 99)
WriteBucketRegionCache(p) ==
    /\ mutexCalls[p].line = 99
    /\ bucketRegionCache' =
          Stored(bucketRegionCache, mutexCalls[p].bucketName, mutexCalls[p].region)
    /\ mutexCalls' = Goto(p, 100)
    /\ UNCHANGED <<regionClientCache, cacheMutex>>
    /\ UNCHANGED <<regionCalls, regionCounters, regionLog, imageVars, startupVars>>

\* cfg, err := config.LoadDefaultConfig (lines 123-129); on an error
\* GetClientForBucket returns the default client (line 126)
LoadDefaultConfig(p) ==
    /\ mutexCalls[p].line = 123
    /\ \/ mutexCalls' = [mutexCalls EXCEPT ![p] = NoMutexCall]
       \/ mutexCalls' = Goto(p, 132)
    /\ UNCHANGED <<bucketRegionCache, regionClientCache, cacheMutex>>
    /\ UNCHANGED <<regionCalls, regionCounters, regionLog, imageVars, startupVars>>

\* regionClientCache[region] = regionClient (line 133)
WriteRegionClientCache(p) ==
    /\ mutexCalls[p].line = 133
    /\ regionClientCache' =
          Stored(regionClientCache, mutexCalls[p].region, ClientFor(mutexCalls[p].region))
    /\ mutexCalls' = Goto(p, 134)
    /\ UNCHANGED <<bucketRegionCache, cacheMutex>>
    /\ UNCHANGED <<regionCalls, regionCounters, regionLog, imageVars, startupVars>>

\* bucketRegionCache = make(map[string]string) (line 143)
ReplaceBucketRegionCache(p) ==
    /\ mutexCalls[p].line = 143
    /\ bucketRegionCache' = <<>>
    /\ mutexCalls' = Goto(p, 144)
    /\ UNCHANGED <<regionClientCache, cacheMutex>>
    /\ UNCHANGED <<regionCalls, regionCounters, regionLog, imageVars, startupVars>>

\* regionClientCache = make(map[string]*s3.Client) (line 144)
ReplaceRegionClientCache(p) ==
    /\ mutexCalls[p].line = 144
    /\ regionClientCache' = <<>>
    /\ mutexCalls' = Goto(p, 145)
    /\ UNCHANGED <<bucketRegionCache, cacheMutex>>
    /\ UNCHANGED <<regionCalls, regionCounters, regionLog, imageVars, startupVars>>

\* cacheMutex.Unlock() (lines 100, 134, and the deferred one of line 142 at
\* line 145) and what follows it: getBucketRegion returns, to its caller
\* (line 102) or into GetClientForBucket (line 115); GetClientForBucket
\* returns (line 136); clearCache returns
Unlock(p) ==
    /\ mutexCalls[p].line \in {100, 134, 145}
    /\ cacheMutex' = [cacheMutex EXCEPT !.writer = 0]
    /\ mutexCalls' =
          IF mutexCalls[p].line = 100 /\ mutexCalls[p].fn = "GetClientForBucket"
          THEN Goto(p, 115)
          ELSE [mutexCalls EXCEPT ![p] = NoMutexCall]
    /\ UNCHANGED <<bucketRegionCache, regionClientCache>>
    /\ UNCHANGED <<regionCalls, regionCounters, regionLog, imageVars, startupVars>>

NextMutex ==
    \E p \in Callers :
        \/ CallCacheFunction(p)
        \/ RLock(p)
        \/ ReadBucketRegionCache(p)
        \/ ReadRegionClientCache(p)
        \/ RUnlock(p)
        \/ GetBucketLocation(p)
        \/ Lock(p)
        \/ WriteBucketRegionCache(p)
        \/ LoadDefaultConfig(p)
        \/ WriteRegionClientCache(p)
        \/ ReplaceBucketRegionCache(p)
        \/ ReplaceRegionClientCache(p)
        \/ Unlock(p)

SpecMutex == InitMutex /\ [][NextMutex]_vars

(***************************************************************************)
(* The start of the program: main up to app.Run, and the goroutines it      *)
(* starts.                                                                  *)
(***************************************************************************)
InitStartup ==
    /\ ImageIdle
    /\ RegionIdle
    /\ mainPc = "start"
    /\ s3URL \in URLArguments
    /\ stateFile \in StateFiles
    /\ stateFileAtStart = stateFile
    /\ bucketListing \in BucketListings
    /\ savedState = AppState(<<>>, <<>>)
    /\ currentState = AppState(<<>>, <<>>)
    /\ targetBucket = <<>>
    /\ targetPrefix = <<>>
    /\ shouldNavigate = FALSE
    /\ navigated = <<>>
    /\ ListIdle

\* lines 245-251: savedState, err := loadState(); currentState := savedState
LoadState ==
    /\ mainPc = "start"
    /\ savedState' = loadState(stateFile)
    /\ currentState' = loadState(stateFile)
    /\ mainPc' = "override"
    /\ UNCHANGED <<stateFileAtStart, s3URL, stateFile, bucketListing, targetBucket, targetPrefix,
                   shouldNavigate, navigated, listVars, imageVars, regionVars>>

\* lines 254-261: override with the URL argument if provided
OverrideWithURL ==
    /\ mainPc = "override"
    /\ IF s3URL # <<>>
       THEN \E r \in {parseS3URL(s3URL)} :
               IF r.ok
               THEN /\ currentState' = AppState(r.bucket, r.prefix)
                    /\ mainPc' = "decide"
               ELSE /\ mainPc' = "fatal"
                    /\ UNCHANGED currentState
       ELSE /\ mainPc' = "decide"
            /\ UNCHANGED currentState
    /\ UNCHANGED <<stateFileAtStart, s3URL, stateFile, bucketListing, savedState, targetBucket, targetPrefix,
                   shouldNavigate, navigated, listVars, imageVars, regionVars>>

\* lines 594-608: the navigation target
DecideNavigation ==
    /\ mainPc = "decide"
    /\ \E t \in {NavigationTarget(s3URL, currentState, savedState)} :
          /\ targetBucket' = t.bucket
          /\ targetPrefix' = t.prefix
          /\ shouldNavigate' = t.navigate
          /\ mainPc' = IF t.navigate THEN "navigate" ELSE "running"
    /\ UNCHANGED <<stateFileAtStart, s3URL, stateFile, bucketListing, savedState, currentState, navigated,
                   listVars, imageVars, regionVars>>

\* lines 610-631 and 407-411: the navigation goroutine lists the buckets and, if
\* the target bucket exists, calls listObjects, which records the current state
\* and saves it (the error of saveState is ignored)
Navigate ==
    /\ mainPc = "navigate"
    /\ IF bucketListing.ok /\ targetBucket \in bucketListing.buckets
       THEN /\ currentState' = AppState(targetBucket, targetPrefix)
            /\ stateFile' \in {stateFile,
                                [kind |-> "saved", bucket |-> targetBucket,
                                 prefix |-> targetPrefix]}
            /\ navigated' = Append(navigated, <<targetBucket, targetPrefix>>)
       ELSE UNCHANGED <<currentState, stateFile, navigated>>
    /\ mainPc' = "running"
    /\ UNCHANGED <<stateFileAtStart, s3URL, bucketListing, savedState, targetBucket, targetPrefix,
                   shouldNavigate, listVars, imageVars, regionVars>>

\* lines 279-283: the goroutine that fills the bucket table ends the program when
\* the buckets cannot be listed
ListBucketsFails ==
    /\ mainPc \in {"decide", "navigate", "running"}
    /\ ~bucketListing.ok
    /\ mainPc' = "fatal"
    /\ UNCHANGED <<stateFileAtStart, s3URL, stateFile, bucketListing, savedState, currentState, targetBucket,
                   targetPrefix, shouldNavigate, navigated, listVars, imageVars, regionVars>>

NextStartup == LoadState \/ OverrideWithURL \/ DecideNavigation \/ Navigate \/ ListBucketsFails

SpecStartup == InitStartup /\ [][NextStartup]_vars

(***************************************************************************)
(* The object list view: the keys handled by the input capture of          *)
(* objectTable, the goroutines of populateObjectTable and the updates they  *)
(* queue.  The bucket is B1 throughout.                                     *)
(***************************************************************************)
InitObjectList == ImageIdle /\ RegionIdle /\ StartupIdle

\* listObjects(B1, p) (lines 407-550): the current state is recorded and saved
\* (the state file is taken to be writable here), a new table with no entries
\* becomes the root, and populateObjectTable starts a goroutine.  The
\* goroutines and updates of earlier calls work on the table and the entries
\* of those calls.
ListObjects(p) ==
    /\ currentState' = AppState(B1, p)
    /\ stateFile' = [kind |-> "saved", bucket |-> B1, prefix |-> p]
    /\ rootView' = "objects"
    /\ listPrefix' = p
    /\ objectTable' = ClearedTable
    /\ objectEntries' = <<>>
    /\ listFetching' = 1
    /\ listUpdates' = <<>>

\* the navigation goroutine of main opens the target (lines 627-631)
OpenTarget ==
    /\ rootView = "buckets"
    /\ navigated = <<>>
    /\ \E p \in StartPrefixes :
          /\ ListObjects(p)
          /\ navigated' = <<(<<B1, p>>)>>
    /\ leftTrail' = <<>>
    /\ UNCHANGED <<opened, mainLocals, imageVars, regionVars>>

\* Enter or Right on a row of the bucket table (lines 552-561)
EnterBucket ==
    /\ rootView = "buckets"
    /\ ListObjects(<<>>)
    /\ leftTrail' = <<>>
    /\ UNCHANGED <<opened, navigated, mainLocals, imageVars, regionVars>>

\* Ctrl+L (lines 515-518, 587-590): populateObjectTable clears the table and
\* the entries and starts a goroutine (lines 448-452)
PressCtrlL ==
    /\ rootView = "objects"
    /\ listFetching + Len(listUpdates) < MaxPending
    /\ objectTable' = ClearedTable
    /\ objectEntries' = <<>>
    /\ listFetching' = listFetching + 1
    /\ opened' = NotOpened
    /\ UNCHANGED <<rootView, listPrefix, listUpdates, leftTrail>>
    /\ UNCHANGED <<currentState, stateFile, navigated, mainLocals, imageVars, regionVars>>

\* listS3Objects returns in one of the goroutines (lines 453-459): on an error
\* the goroutine ends, otherwise it queues its update
ListingArrives ==
    /\ listFetching > 0
    /\ listFetching' = listFetching - 1
    /\ \/ UNCHANGED listUpdates
       \/ \E objects \in Listings(listPrefix) : listUpdates' = Append(listUpdates, objects)
    /\ UNCHANGED <<rootView, listPrefix, objectTable, objectEntries, opened, leftTrail>>
    /\ UNCHANGED <<currentState, stateFile, navigated, mainLocals, imageVars, regionVars>>

\* the event loop runs the oldest queued update (lines 459-505)
ApplyUpdate ==
    /\ listUpdates # <<>>
    /\ \E r \in {Applied(objectTable, objectEntries, Head(listUpdates), listPrefix)} :
          /\ objectTable' = r.table
          /\ objectEntries' = r.entries
    /\ listUpdates' = Tail(listUpdates)
    /\ UNCHANGED <<rootView, listPrefix, listFetching, opened, leftTrail>>
    /\ UNCHANGED <<currentState, stateFile, navigated, mainLocals, imageVars, regionVars>>

\* Left in the object list (lines 520-532)
PressLeft ==
    /\ rootView = "objects"
    /\ IF listPrefix # <<>>
       THEN /\ ListObjects(ParentPrefix(listPrefix))
            /\ leftTrail' = Append(leftTrail, [from |-> listPrefix,
                                               to |-> ParentPrefix(listPrefix),
                                               view |-> "objects"])
       ELSE /\ rootView' = "buckets"
            /\ leftTrail' = Append(leftTrail, [from |-> listPrefix, to |-> listPrefix,
                                               view |-> "buckets"])
            /\ UNCHANGED <<listPrefix, objectTable, objectEntries, listFetching,
                           listUpdates, currentState, stateFile>>
    /\ opened' = NotOpened
    /\ UNCHANGED <<navigated, mainLocals, imageVars, regionVars>>

\* Enter or Right on the selected row of the object list (lines 533-543); any
\* data row of the table can be the selected one
PressEnter ==
    /\ rootView = "objects"
    /\ \E row \in 1..Len(objectTable.rows) :
          IF row - 1 < Len(objectEntries)
          THEN /\ opened' = [shown |-> objectTable.rows[row],
                             key |-> objectEntries[row].Key, pressed |-> TRUE]
               /\ IF objectEntries[row].IsDirectory
                  THEN ListObjects(objectEntries[row].Key)
                  ELSE \* showFileContent (lines 331-335, 405)
                       /\ currentState' = AppState(B1, TrimBase(objectEntries[row].Key))
                       /\ stateFile' = [kind |-> "saved", bucket |-> B1,
                                        prefix |-> TrimBase(objectEntries[row].Key)]
                       /\ rootView' = "file"
                       /\ UNCHANGED <<listPrefix, objectTable, objectEntries,
                                      listFetching, listUpdates>>
          ELSE /\ opened' = NotOpened
               /\ UNCHANGED <<currentState, stateFile, rootView, listPrefix,
                              objectTable, objectEntries, listFetching, listUpdates>>
    /\ leftTrail' = <<>>
    /\ UNCHANGED <<navigated, mainLocals, imageVars, regionVars>>

\* Escape or Left in the file view (lines 347-351): back to the object list
LeaveFile ==
    /\ rootView = "file"
    /\ rootView' = "objects"
    /\ opened' = NotOpened
    /\ UNCHANGED <<listPrefix, objectTable, objectEntries, listFetching, listUpdates,
                   leftTrail>>
    /\ UNCHANGED <<currentState, stateFile, navigated, mainLocals, imageVars, regionVars>>

NextObjectList ==
    \/ OpenTarget
    \/ EnterBucket
    \/ PressCtrlL
    \/ ListingArrives
    \/ ApplyUpdate
    \/ PressLeft
    \/ PressEnter
    \/ LeaveFile

SpecObjectList == InitObjectList /\ [][NextObjectList]_vars

TypeOK ==
    /\ pc \in {"call", "done"}
    /\ fn \in {"convertToASCIIArt", "convertImageToASCII"}
    /\ wasImage \in BOOLEAN
    /\ decodeCalls \in 0..1


(***************************************************************************)
(* The claims.                                                             *)
(***************************************************************************)
Returned == pc = "done"
EntryReturned == pc = "done" /\ fn = "convertToASCIIArt"

\* the two signals of the sniffer as the specification states them: an image
\* extension (".jpg", ".jpeg", ".png", ".gif", ".bmp", ".webp", letters compared
\* without regard to case) and a complete signature at the start of the buffer
ImageExtensions == { <<"j","p","g">>, <<"j","p","e","g">>, <<"p","n","g">>,
                     <<"g","i","f">>, <<"b","m","p">>, <<"w","e","b","p">> }
EndsInImageExtension(name) ==
    \E e \in ImageExtensions :
        /\ Len(name) >= Len(e) + 1
        /\ name[Len(name) - Len(e)] = "."
        /\ \A i \in 1..Len(e) : ToLowerChar(name[Len(name) - Len(e) + i]) = e[i]
BeginsWithSignature(bytes) ==
    \/ \E sig \in {SigJPEG, SigPNG, SigGIF87a, SigGIF89a, SigBMP} :
          /\ Len(bytes) >= Len(sig)
          /\ \A i \in 1..Len(sig) : bytes[i] = sig[i]
    \/ /\ Len(bytes) >= 12
       /\ \A i \in 1..4 : bytes[i] = SigRIFF[i] /\ bytes[8 + i] = SigWEBP[i]
SnifferSignals == EndsInImageExtension(filename) \/ BeginsWithSignature(data.bytes)

\* C1: whenever the filename has no image suffix and the bytes match no magic
\* signature, convertToASCIIArt returns ("", false) and the decoder was never invoked.
C1_RejectedReturnsEmptyWithoutDecode ==
    (EntryReturned /\ ~SnifferSignals)
        => (text = EmptyText /\ wasImage = FALSE /\ decodeCalls = 0)

C1_Witness ==
    /\ EntryReturned
    /\ data.bytes = TextHello
    /\ ~EndsInImageExtension(filename)
    /\ text = EmptyText /\ ~wasImage /\ decodeCalls = 0

\* C2: an input that passes the sniffer but fails to decode returns was_image = false
\* with a non-empty diagnostic text; was_image = true only when decoding succeeded.
C2_DecodeFailureIsDiagnosed ==
    EntryReturned =>
        /\ (SnifferSignals /\ ~data.dec.ok) => (wasImage = FALSE /\ TextLen(text) > 0)
        /\ wasImage => data.dec.ok

C2_Witness ==
    /\ EntryReturned
    /\ data.bytes = SigJPEG \o <<255, 224, 0, 16>>
    /\ ~data.dec.ok
    /\ ~wasImage /\ TextLen(text) > 0

\* C3 as stated: for every plain-text buffer and every filename, convertToASCIIArt
\* returns exactly ("", false).
C3_Original_TextAlwaysEmpty ==
    (EntryReturned /\ IsPlainText(data.bytes)) => (text = EmptyText /\ wasImage = FALSE)

\* C3 amended: for a plain-text buffer that the decoder rejects, was_image is false,
\* and the text is "" exactly when the filename has no image suffix and the buffer
\* does not begin with a magic signature; otherwise the text is a non-empty diagnostic.
C3_TextNeverAnImage ==
    (EntryReturned /\ IsPlainText(data.bytes) /\ ~data.dec.ok) =>
        /\ wasImage = FALSE
        /\ (text = EmptyText) <=> ~SnifferSignals
        /\ SnifferSignals => TextLen(text) > 0

C3_Witness ==
    /\ EntryReturned
    /\ data.bytes = TextHello /\ IsPlainText(data.bytes)
    /\ filename = PngName
    /\ ~wasImage /\ TextLen(text) > 0

\* C4: the sniffer accepts an input (the call goes on to the decoder) if and only
\* if the filename ends in an image extension, compared case-insensitively, or the
\* buffer begins with a complete known signature, whatever its length and whatever
\* bytes follow.
C4_SnifferAcceptsIffEitherSignal ==
    EntryReturned => ((decodeCalls = 1) <=> SnifferSignals)

C4_Witness ==
    /\ EntryReturned
    /\ data.bytes = SigRIFF \o <<4, 0, 0, 0>> \o SigWEBP
    /\ ~EndsInImageExtension(filename)
    /\ decodeCalls = 1

\* C5 as stated: for every buffer shorter than 2 bytes the sniffer returns false.
C5_Original_ShortBufferRejected ==
    (EntryReturned /\ Len(data.bytes) < 2) => decodeCalls = 0

\* C5 amended: for every buffer shorter than 2 bytes the magic-byte check fails, so
\* the sniffer returns false exactly when the filename has no image extension.
C5_ShortBufferRejectedUnlessExtension ==
    (EntryReturned /\ Len(data.bytes) < 2) =>
        ((decodeCalls = 0) <=> ~EndsInImageExtension(filename))

C5_Witness ==
    /\ EntryReturned
    /\ data.bytes = <<255>>
    /\ ~EndsInImageExtension(filename)
    /\ decodeCalls = 0 /\ text = EmptyText

\* C6: for every source of at least 1x1 and every maximum grid the entry point
\* passes to the planner, 1 <= target_width <= max_width and
\* 1 <= target_height <= max_height.
C6_PlannedGridWithinMaximum ==
    (Returned /\ wasImage /\ width >= 1 /\ height >= 1) =>
        /\ 1 <= newWidth /\ newWidth <= maxWidth
        /\ 1 <= newHeight /\ newHeight <= maxHeight

C6_Witness ==
    /\ EntryReturned /\ wasImage
    /\ width = 3 /\ height = 1
    /\ maxWidth = 20 /\ maxHeight = 10
    /\ newWidth = 20 /\ newHeight = 3

\* C7: on success the text after the header is exactly target_height lines of
\* exactly target_width characters, each ended by one line break, with nothing
\* after the last line break; the header reports target_width and target_height.
C7_BodyIsTheGrid ==
    (Returned /\ wasImage) =>
        /\ Len(text.body) = newHeight * (newWidth + 1)
        /\ \A i \in 1..Len(text.body) :
              (text.body[i] = 10) <=> (i % (newWidth + 1) = 0)
        /\ Len(text.head) = 4
        /\ text.head[2] = "+- ASCII: " \o ToString(newWidth) \o "x" \o ToString(newHeight)
                          \o " (term: " \o ToString(terminalWidth) \o "x"
                          \o ToString(terminalHeight) \o ", max: " \o ToString(maxWidth)
                          \o "x" \o ToString(maxHeight) \o ") -+\n"

C7_Witness ==
    /\ Returned /\ wasImage
    /\ newWidth = 13 /\ newHeight = 10
    /\ Len(text.body) = 140
    /\ text.body[14] = 10 /\ text.body[140] = 10

\* C8: a uniformly coloured image gives a grid in which every cell, border and
\* corner cells included, has the same tone-ramp index: the edge magnitude is zero
\* and the area average is the same at every cell.
C8_UniformImageUniformGrid ==
    (Returned /\ wasImage /\ IsSolid(data.dec.img)) =>
        \A y \in 1..newHeight : \A x \in 1..newWidth :
            /\ cells[y][x].charIndex = cells[1][1].charIndex
            /\ cells[y][x].edge = RInt(0)
            /\ cells[y][x].intensity = cells[1][1].intensity

C8_Witness ==
    /\ Returned /\ wasImage
    /\ data.dec.img = SolidImage(3, 3, Gray4(9))
    /\ newWidth = 20 /\ newHeight = 10
    /\ \A y \in 1..newHeight : \A x \in 1..newWidth : cells[y][x].charIndex = 5

\* C9: for a horizontal grayscale gradient from black (left) to white (right) the
\* glyph index of the cells of a row is non-decreasing from left to right.
C9_GradientIndexNonDecreasing ==
    (Returned /\ wasImage /\ IsGradient(data.dec.img)) =>
        \A y \in 1..newHeight : \A x \in 1..(newWidth - 1) :
            cells[y][x].charIndex <= cells[y][x + 1].charIndex

\* C10: a 2x2 solid-white opaque image converted with max_width = 10 and
\* max_height = 10 yields a grid whose every character is the final glyph of the ramp.
C10_WhiteIsLightestGlyph ==
    (/\ Returned /\ wasImage
     /\ data.dec.img = SolidImage(2, 2, White)
     /\ maxWidth = 10 /\ maxHeight = 10) =>
        \A y \in 1..newHeight : \A x \in 1..newWidth :
            text.body[(y - 1) * (newWidth + 1) + x] = RampGlyphs[Len(RampGlyphs)]

\* C11 as stated: for every terminal size and every decodable image the grid is
\* within the terminal: target_width <= terminalWidth and
\* target_height <= terminalHeight.
C11_Original_GridWithinTerminal ==
    (EntryReturned /\ wasImage) =>
        (newWidth <= terminalWidth /\ newHeight <= terminalHeight)

\* C11 amended: the grid is within the terminal in each dimension in which the
\* terminal is at least the floor of the effective maximum (20 columns, 10 rows);
\* in a smaller terminal the grid is at most the floor.
C11_GridWithinTerminalAboveFloor ==
    (EntryReturned /\ wasImage) =>
        /\ newWidth <= (IF terminalWidth >= 20 THEN terminalWidth ELSE 20)
        /\ newHeight <= (IF terminalHeight >= 10 THEN terminalHeight ELSE 10)

C11_Witness ==
    /\ EntryReturned /\ wasImage
    /\ terminalWidth = 30 /\ terminalHeight = 20
    /\ width = 3 /\ height = 1
    /\ newWidth = 24 /\ newHeight = 4

\* C12: the effective maximum is never below 20 columns and 10 rows; it is the
\* ceiling (180 columns, 80 rows) only when the terminal is wider than 200 columns
\* (taller than 100 rows); otherwise it is the terminal size less the margin
\* (6 columns, 8 rows) wherever that is not below the floor.
C12_EffectiveMaximum ==
    (EntryReturned /\ decodeCalls = 1) =>
        /\ maxWidth >= 20 /\ maxHeight >= 10
        /\ (maxWidth # terminalWidth - 6) =>
              \/ (maxWidth = 20 /\ terminalWidth - 6 < 20)
              \/ (maxWidth = 180 /\ terminalWidth > 200)
        /\ (maxHeight # terminalHeight - 8) =>
              \/ (maxHeight = 10 /\ terminalHeight - 8 < 10)
              \/ (maxHeight = 80 /\ terminalHeight > 100)

C12_Witness ==
    /\ EntryReturned /\ decodeCalls = 1
    /\ terminalWidth = 200 /\ terminalHeight = 101
    /\ maxWidth = 194 /\ maxHeight = 80

\* C13: a decoded source of zero width or zero height, or a plan with a dimension
\* that computes to less than 1, is rendered as a grid of at least 1x1: the call
\* succeeds and the text has at least one grid line of at least one character.
C13_DegenerateGeometryClamped ==
    (/\ Returned /\ decodeCalls = 1 /\ data.dec.ok
     /\ \/ data.dec.img.w = 0
        \/ data.dec.img.h = 0
        \/ \E v \in IntOfNaN :
              \E i \in 1..2 :
                Planned(data.dec.img.w, data.dec.img.h, maxWidth, maxHeight, v)[i] < 1) =>
        /\ wasImage
        /\ newWidth >= 1 /\ newHeight >= 1
        /\ Len(text.body) >= 2
        /\ text.body[1] # 10

C13_Witness ==
    /\ Returned /\ wasImage
    /\ data.dec.img.w = 0 /\ data.dec.img.h = 0
    /\ width = 0 /\ height = 0
    /\ newWidth = 1 /\ newHeight = maxHeight
    /\ Len(text.body) = 2 * maxHeight

C15_RegionOfLocationConstraint ==
    \A p \in Callers :
        regionCalls[p].pc = "done" =>
            /\ (regionCalls[p].asked /\ regionCalls[p].err = "") =>
                  /\ regionCalls[p].result = "" => regionCalls[p].region = "us-east-1"
                  /\ regionCalls[p].result # "" =>
                        regionCalls[p].region = regionCalls[p].result
            /\ regionCalls[p].err = "" => regionCalls[p].region # ""

C15_Witness ==
    /\ regionCalls[1].pc = "done" /\ regionCalls[1].asked
    /\ regionCalls[1].err = "" /\ regionCalls[1].result = ""
    /\ regionCalls[1].region = "us-east-1"
    /\ regionCalls[2].pc = "done" /\ ~regionCalls[2].asked
    /\ regionCalls[2].bucketName = regionCalls[1].bucketName
    /\ regionCalls[2].region = "us-east-1"

\* C16: once main has chosen the navigation target, a URL argument decides it:
\* with a URL argument the target, the current state and every listObjects call
\* are the bucket and prefix parsed from the URL, whatever the state file held;
\* without one the target is the saved bucket and prefix, and there is a target
\* only if the saved bucket is not empty.
C16_URLBeforeSavedState ==
    (mainPc \in {"navigate", "running"}) =>
        /\ s3URL # <<>> =>
              /\ shouldNavigate
              /\ targetBucket = parseS3URL(s3URL).bucket
              /\ targetPrefix = parseS3URL(s3URL).prefix
              /\ currentState = AppState(parseS3URL(s3URL).bucket, parseS3URL(s3URL).prefix)
              /\ \A i \in 1..Len(navigated) :
                    navigated[i] = <<parseS3URL(s3URL).bucket, parseS3URL(s3URL).prefix>>
        /\ s3URL = <<>> =>
              /\ shouldNavigate <=> savedState.CurrentBucket # <<>>
              /\ shouldNavigate =>
                    /\ targetBucket = savedState.CurrentBucket
                    /\ targetPrefix = savedState.CurrentPrefix
              /\ \A i \in 1..Len(navigated) :
                    navigated[i] = <<savedState.CurrentBucket, savedState.CurrentPrefix>>

C16_Witness ==
    /\ mainPc = "running"
    /\ s3URL = Scheme \o B2 \o <<"/", "p", "/", "q">>
    /\ savedState = AppState(B1, <<"p", "/">>)
    /\ navigated = << <<B2, <<"p", "/", "q", "/">> >> >>
    /\ currentState = AppState(B2, <<"p", "/", "q", "/">>)
    /\ stateFile = [kind |-> "saved", bucket |-> B2, prefix |-> <<"p", "/", "q", "/">>]

\* the planner of the specification in integer arithmetic, for a source of w x h
\* pixels (w, h >= 1) and a maximum of mw x mh: adjusted_ratio = 2w/h exceeds
\* mw/mh exactly when 2 * w * mh > mw * h
WidthConstrained(w, h, mw, mh) == 2 * w * mh > mw * h
\* max_width / adjusted_ratio = (mw * h) / (2 * w) and
\* max_height * adjusted_ratio = (2 * w * mh) / h, rounded to the nearest integer
NearestTargetHeight(w, h, mw) == (2 * mw * h + 2 * w) \div (4 * w)
NearestTargetWidth(w, h, mh) == (4 * w * mh + h) \div (2 * h)
\* the same quotients with the fraction dropped
TruncatedTargetHeight(w, h, mw) == (mw * h) \div (2 * w)
TruncatedTargetWidth(w, h, mh) == (2 * w * mh) \div h
AtLeastOne(n) == IF n < 1 THEN 1 ELSE n

\* C17 as stated: with adjusted_ratio = (source_width / source_height) / 0.5, the
\* grid is max_width by round(max_width / adjusted_ratio) if adjusted_ratio >
\* max_width / max_height and round(max_height * adjusted_ratio) by max_height
\* otherwise, round being rounding to the nearest integer, then clamped to 1.
C17_Original_RoundedToNearest ==
    (Returned /\ wasImage /\ width >= 1 /\ height >= 1) =>
        IF WidthConstrained(width, height, maxWidth, maxHeight)
        THEN /\ newWidth = AtLeastOne(maxWidth)
             /\ newHeight = AtLeastOne(NearestTargetHeight(width, height, maxWidth))
        ELSE /\ newHeight = AtLeastOne(maxHeight)
             /\ newWidth = AtLeastOne(NearestTargetWidth(width, height, maxHeight))

\* C17 amended: the same algorithm with the computed dimension truncated toward
\* zero instead of rounded to the nearest integer.
C17_TruncatedTowardZero ==
    (Returned /\ wasImage /\ width >= 1 /\ height >= 1) =>
        IF WidthConstrained(width, height, maxWidth, maxHeight)
        THEN /\ newWidth = AtLeastOne(maxWidth)
             /\ newHeight = AtLeastOne(TruncatedTargetHeight(width, height, maxWidth))
        ELSE /\ newHeight = AtLeastOne(maxHeight)
             /\ newWidth = AtLeastOne(TruncatedTargetWidth(width, height, maxHeight))

C17_Witness ==
    /\ Returned /\ wasImage
    /\ width = 3 /\ height = 2
    /\ maxWidth = 20 /\ maxHeight = 10
    /\ newWidth = 20 /\ newHeight = 6
    /\ NearestTargetHeight(width, height, maxWidth) = 7

\* the value the contrast curve of the code gives to the clamped intensity of a cell
Contrasted(cell) == enhanceContrast(cell.finalIntensity)

\* C18: the contrast curve applied before quantization behaves as the logistic
\* function 1 / (1 + e^(-6 * (intensity - 0.5))): on every cell its value lies
\* strictly between 0 and 1, an intensity of 0.5 is mapped to 0.5, and of two
\* cells of a row the one of greater intensity gets the greater value.
C18_ContrastCurveIsLogistic ==
    (Returned /\ wasImage) =>
        \A y \in 1..newHeight : \A x \in 1..newWidth :
            /\ Contrasted(cells[y][x]) # PosInf
            /\ RLess(RInt(0), Contrasted(cells[y][x]))
            /\ RLess(Contrasted(cells[y][x]), RInt(1))
            /\ cells[y][x].finalIntensity = <<1, 2>> => Contrasted(cells[y][x]) = <<1, 2>>
            /\ \A x2 \in 1..newWidth :
                  RLess(cells[y][x].finalIntensity, cells[y][x2].finalIntensity)
                      => RLess(Contrasted(cells[y][x]), Contrasted(cells[y][x2]))

\* C19: every character of every grid line is one of the glyphs of the ramp, the
\* one at index floor(contrasted * (N - 1)) clamped to 0..N-1, N being the number
\* of glyphs of the ramp.
C19_EveryCharacterIsARampGlyph ==
    (Returned /\ wasImage) =>
        \A y \in 1..newHeight : \A x \in 1..newWidth :
            /\ \E k \in 1..Len(RampGlyphs) :
                  text.body[(y - 1) * (newWidth + 1) + x] = RampGlyphs[k]
            /\ Contrasted(cells[y][x]) # PosInf =>
                  text.body[(y - 1) * (newWidth + 1) + x] =
                      RampGlyphs[1 + Min(Max(RTrunc(RMul(Contrasted(cells[y][x]),
                                                         RInt(Len(RampGlyphs) - 1))), 0),
                                         Len(RampGlyphs) - 1)]

\* C20: for every output cell and every source and grid size, area sampling
\* reads at most 16 source pixels (a window of at most 4x4).
C20_AtMostSixteenSamples ==
    (Returned /\ wasImage) =>
        \A y \in 1..newHeight : \A x \in 1..newWidth : cells[y][x].samples <= 16

\* the points at which the two passes read the source for the cell in column x
\* of line y of the grid returned
AreaReads(x, y) == sampleReads(x - 1, y - 1, newWidth, newHeight, width, height)
EdgeReads(x, y) == edgeReads(x - 1, y - 1, newWidth, newHeight, width, height)

\* C21: for every source of at least 1x1 pixels, every grid size and every cell,
\* every point at which a source pixel is read, by area sampling or by the edge
\* pass, has 0 <= x < width and 0 <= y < height; the mapped centre is in range
\* and is read by both passes, and every point of the edge pass is the point
\* of the 3x3 neighbourhood of the centre clamped to the nearest valid one.
C21_EveryReadInRange ==
    (Returned /\ wasImage /\ width >= 1 /\ height >= 1) =>
        \A y \in 1..newHeight : \A x \in 1..newWidth :
            LET c == cells[y][x] IN
                /\ \A p \in AreaReads(x, y) \cup EdgeReads(x, y) \cup {c.center} :
                       0 <= p[1] /\ p[1] < width /\ 0 <= p[2] /\ p[2] < height
                /\ c.center \in AreaReads(x, y)
                /\ EdgeReads(x, y) =
                       {<<Min(Max(c.center[1] + dx, 0), width - 1),
                          Min(Max(c.center[2] + dy, 0), height - 1)>> :
                           dx \in -1..1, dy \in -1..1}

\* a cell at the right and lower border of a source with more than one pixel
\* each way, sampled with a window that reaches past the border
C21_Witness ==
    /\ Returned /\ wasImage /\ width >= 2 /\ height >= 2
    /\ \E y \in 1..newHeight : \E x \in 1..newWidth :
          /\ cells[y][x].center = <<width - 1, height - 1>>
          /\ cells[y][x].samples < 9
          /\ Cardinality(EdgeReads(x, y)) = 4

\* C22: for every cell, the intensity handed to the tone mapper is
\* clamp(area intensity + 0.3 * edge magnitude, 0, 1) with edge magnitude =
\* min(1, gx^2 + gy^2); it lies in [0, 1] and is never below the area intensity.
C22_CombinedIntensity ==
    (Returned /\ wasImage) =>
        \A y \in 1..newHeight : \A x \in 1..newWidth :
            LET c == cells[y][x]
                squares == RAdd(RMul(c.gx, c.gx), RMul(c.gy, c.gy))
                magnitude == IF RLess(RInt(1), squares) THEN RInt(1) ELSE squares
                sum == RAdd(c.intensity, RMul(<<3, 10>>, magnitude))
            IN  /\ c.edge = magnitude
                /\ c.finalIntensity = IF RLess(RInt(1), sum) THEN RInt(1)
                                      ELSE IF RLess(sum, RInt(0)) THEN RInt(0) ELSE sum
                /\ ~RLess(c.finalIntensity, RInt(0))
                /\ ~RLess(RInt(1), c.finalIntensity)
                /\ ~RLess(c.finalIntensity, c.intensity)

\* one grid with a cell whose sum exceeds 1 and is clamped, and a cell whose
\* edge raises the area intensity to a value below 1
C22_Witness ==
    /\ Returned /\ wasImage
    /\ \E y \in 1..newHeight : \E x \in 1..newWidth :
          /\ RLess(RInt(0), cells[y][x].edge)
          /\ RLess(cells[y][x].intensity, RInt(1))
          /\ cells[y][x].finalIntensity = RInt(1)
    /\ \E y \in 1..newHeight : \E x \in 1..newWidth :
          /\ RLess(RInt(0), cells[y][x].edge)
          /\ RLess(cells[y][x].edge, RInt(1))
          /\ RLess(cells[y][x].intensity, cells[y][x].finalIntensity)
          /\ RLess(cells[y][x].finalIntensity, RInt(1))

\* C23: a fully transparent source pixel is composited onto white before its
\* luminance is computed, so a cell that reads only fully transparent pixels
\* gets the glyph of a cell over opaque white, and that glyph is the blank,
\* lightest glyph of the ramp and not the glyph used for black.
C23_TransparentIsBlank ==
    (Returned /\ wasImage /\ width >= 1 /\ height >= 1) =>
        \A y \in 1..newHeight : \A x \in 1..newWidth :
            LET c == cells[y][x]
                glyph == text.body[(y - 1) * (newWidth + 1) + x]
                Over(colour) == Cell(WithGray(SolidImage(width, height, colour)),
                                     x - 1, y - 1, newWidth, newHeight, width, height).rune
            IN  (\A p \in AreaReads(x, y) \cup EdgeReads(x, y) :
                        At(data.dec.img, p[1], p[2]).a = 0) =>
                    /\ c.intensity = RInt(0)
                    /\ glyph = Over(White)
                    /\ glyph # Over(Black)
                    /\ glyph = RampGlyphs[Len(RampGlyphs)]

\* the sum of 1 - luminance over a set of points of an image, in units of
\* 1/Gray1000Max
RECURSIVE InvertedLuminanceSum(_, _)
InvertedLuminanceSum(img, points) ==
    IF points = {} THEN 0
    ELSE LET p == CHOOSE q \in points : TRUE
         IN  (Gray1000Max - Gray1000(At(img, p[1], p[2])))
                 + InvertedLuminanceSum(img, points \ {p})

\* C30: for every source of at least 1x1 pixels, every grid size and every cell,
\* area sampling reads at least one in-range pixel, the mapped centre, so the
\* sample count is at least 1 and the fallback is not taken; the area intensity
\* is the mean of the inverted luminances of the in-range pixels of the window,
\* it lies in [0, 1], and every composited channel lies in 0..65535.
C30_AtLeastOneSample ==
    (Returned /\ wasImage /\ width >= 1 /\ height >= 1) =>
        \A y \in 1..newHeight : \A x \in 1..newWidth :
            LET c == cells[y][x] IN
                /\ c.center \in AreaReads(x, y)
                /\ c.samples >= 1
                /\ c.samples = Cardinality(AreaReads(x, y))
                /\ c.intensity = Rat(InvertedLuminanceSum(data.dec.img, AreaReads(x, y)),
                                     Gray1000Max * c.samples)
                /\ ~RLess(c.intensity, RInt(0))
                /\ ~RLess(RInt(1), c.intensity)
                /\ \A p \in AreaReads(x, y) :
                       LET px == At(data.dec.img, p[1], p[2]) IN
                           {Composite(px.r, px.a), Composite(px.g, px.a),
                            Composite(px.b, px.a)} \subseteq 0..65535

\* a cell whose window has only its centre in range, over a pixel that is
\* neither black nor white
C30_Witness ==
    /\ Returned /\ wasImage /\ width >= 1 /\ height >= 1
    /\ \E y \in 1..newHeight : \E x \in 1..newWidth :
          /\ cells[y][x].samples = 1
          /\ RLess(RInt(0), cells[y][x].intensity)
          /\ RLess(cells[y][x].intensity, RInt(1))

\* C26: under every interleaving of concurrent getBucketRegion calls for the
\* same bucket, starting from an empty cache and without a clearCache in
\* between, GetBucketLocation is invoked at most once for that bucket.
C26_AtMostOneLocationRequest ==
    ~clearCacheCalled => \A b \in BucketNames : getBucketLocationCalls[b] <= 1

\* the cache before call i of the log
CacheBefore(i) == IF i = 1 THEN <<>> ELSE regionLog[i - 1].cache

\* C25: once a getBucketRegion call for a bucket has returned successfully,
\* every later call for the bucket made before the next clearCache returns the
\* same region with a nil error and does not invoke GetBucketLocation; a call
\* whose GetBucketLocation fails returns the error and leaves the cache as it
\* was, and the next call for the bucket invokes GetBucketLocation again.
C25_SequentialCacheHit ==
    \A j \in DOMAIN regionLog :
        regionLog[j].op = "getBucketRegion" =>
            /\ \A i \in 1..(j - 1) :
                  (/\ regionLog[i].op = "getBucketRegion"
                   /\ regionLog[i].bucketName = regionLog[j].bucketName
                   /\ regionLog[i].err = ""
                   /\ \A k \in (i + 1)..(j - 1) : regionLog[k].op # "clearCache") =>
                      /\ regionLog[j].region = regionLog[i].region
                      /\ regionLog[j].err = ""
                      /\ ~regionLog[j].asked
            /\ (regionLog[j].asked /\ ~regionLog[j].answer.ok) =>
                  /\ regionLog[j].err = regionLog[j].answer.err
                  /\ regionLog[j].err # ""
                  /\ regionLog[j].cache = CacheBefore(j)
                  /\ (/\ j + 1 \in DOMAIN regionLog
                      /\ regionLog[j + 1].op = "getBucketRegion"
                      /\ regionLog[j + 1].bucketName = regionLog[j].bucketName) =>
                         regionLog[j + 1].asked

\* a successful call, a call for another bucket, and a hit for the first
\* bucket with a service that would now answer otherwise
C25_Witness ==
    /\ Len(regionLog) = 3
    /\ regionLog[1].op = "getBucketRegion" /\ regionLog[1].asked /\ regionLog[1].err = ""
    /\ regionLog[2].op = "getBucketRegion" /\ regionLog[2].err # ""
    /\ regionLog[2].bucketName # regionLog[1].bucketName
    /\ regionLog[3].op = "getBucketRegion"
    /\ regionLog[3].bucketName = regionLog[1].bucketName
    /\ ~regionLog[3].asked
    /\ regionLog[3].region = regionLog[1].region
    /\ RegionOf(regionLog[3].answer.locationConstraint) # regionLog[1].region

\* a goroutine is about to read one of the two cache maps, or to write or
\* replace one
Reading(p) == mutexCalls[p].line \in ReadLines
Writing(p) == mutexCalls[p].line \in WriteLines

\* C24: in every interleaving of concurrent getBucketRegion, GetClientForBucket
\* and clearCache calls, every read of bucketRegionCache or regionClientCache
\* happens while the goroutine holds cacheMutex, for reading or for writing,
\* every write or replacement of either map happens while it holds cacheMutex
\* for writing, and no write overlaps another access.
C24_CachesGuardedByMutex ==
    /\ cacheMutex.writer # 0 => cacheMutex.readers = {}
    /\ \A p \in Callers :
          /\ Reading(p) => (p \in cacheMutex.readers \/ cacheMutex.writer = p)
          /\ Writing(p) =>
                /\ cacheMutex.writer = p
                /\ \A q \in Callers \ {p} : ~Reading(q) /\ ~Writing(q)

\* a goroutine replaces a map in clearCache while another, which has read
\* bucketRegionCache and got its answer from the service, waits for the mutex
C24_Witness ==
    /\ mutexCalls[1].line = 144 /\ mutexCalls[2].line = 98
    /\ cacheMutex.writer = 1

\* two goroutines read the two maps at the same time
C24_ConcurrentReaders ==
    /\ mutexCalls[1].line = 77 /\ mutexCalls[2].line = 116
    /\ cacheMutex.readers = {1, 2}

\* the navigation goroutine found the target bucket in the ListBuckets result
TargetBucketListed == bucketListing.ok /\ targetBucket \in bucketListing.buckets

\* C29: at startup the application leaves the bucket list for the target
\* bucket and prefix only if the target bucket is in the ListBuckets result; if
\* the listing fails or the bucket is absent, the bucket list stays the root
\* view, the current state is the state loaded from the state file, and the
\* state file is as it was when the program started.
C29_NavigationOnlyToListedBucket ==
    /\ navigated # <<>> =>
          (TargetBucketListed /\ navigated = <<(<<targetBucket, targetPrefix>>)>>)
    /\ (mainPc = "running" /\ ~TargetBucketListed) =>
          /\ navigated = <<>>
          /\ stateFile = stateFileAtStart
          /\ currentState = savedState

\* C27: in the object list view, after any sequence of refreshes and listing
\* responses, objectEntries has exactly one entry per data row of the table
\* and objectEntries[r-1] is the object or directory displayed in row r, so
\* Enter on row r opens what row r shows.
C27_EntriesMatchRows ==
    /\ rootView = "objects" =>
          /\ Len(objectEntries) = Len(objectTable.rows)
          /\ \A r \in DOMAIN objectEntries : objectEntries[r].Key = objectTable.rows[r]
    /\ opened.pressed => opened.key = opened.shown

\* Enter on a row opened a key other than the name the row showed
C27_OpenedAnotherKey == opened.pressed /\ opened.key # opened.shown

\* a prefix without its last segment: the part of it up to the last "/" before
\* its final character
WithoutLastSegment(p) ==
    LET slashes == {i \in 1..(Len(p) - 1) : p[i] = "/"}
    IN  IF slashes = {} THEN <<>>
        ELSE SubSeq(p, 1, CHOOSE i \in slashes : \A j \in slashes : j <= i)

\* C28: Left in the object list moves exactly one level up: from a prefix of
\* k >= 1 segments each ending in "/" it lists the prefix without its last
\* segment, from the empty prefix it returns to the bucket list; the prefix
\* gets shorter at every press, and k + 1 presses in a row, no fewer, reach the
\* bucket list.
C28_LeftMovesOneLevelUp ==
    \A i \in DOMAIN leftTrail :
        LET e == leftTrail[i]
            k == Depth(leftTrail[1].from)
        IN  (leftTrail[1].from = <<>> \/ leftTrail[1].from[Len(leftTrail[1].from)] = "/") =>
                /\ i > 1 => (leftTrail[i - 1].view = "objects" /\ e.from = leftTrail[i - 1].to)
                /\ e.from = <<>> => e.view = "buckets"
                /\ e.from # <<>> =>
                      /\ e.view = "objects"
                      /\ e.to = WithoutLastSegment(e.from)
                      /\ Len(e.to) < Len(e.from)
                      /\ Depth(e.to) = Depth(e.from) - 1
                /\ i <= k + 1
                /\ (i = k + 1) <=> (e.view = "buckets")
                /\ (i = Len(leftTrail) /\ e.view = "objects") =>
                      (rootView = "objects" /\ listPrefix = e.to)

\* three presses from a prefix of two segments, ending in the bucket list
C28_Witness ==
    /\ Len(leftTrail) = 3
    /\ leftTrail[1].from = <<"a", "/", "a", "/">>
    /\ leftTrail[2].from = <<"a", "/">>
    /\ rootView = "buckets"

=============================================================================
